---- MODULE Spec2Model ----
(***************************************************************************)
(* Retrieval and indexing engine of obsidian-notebook-mcp                  *)
(* (src/src/vectorProcessor.js) together with the vector store it drives.  *)
(*                                                                         *)
(* Strings are sequences of one-character strings, so that toLowerCase,    *)
(* includes, startsWith, split, slice and trim are computed character by   *)
(* character.  Scores are integers in hundredths (0.3 is 30, 1.0 is 100).  *)
(***************************************************************************)
EXTENDS Integers, Sequences, FiniteSets, TLC

\* ------------------------------------------------------------------------
\* String helpers (JavaScript String.prototype semantics)
\* ------------------------------------------------------------------------

UpperLetters == <<"A","B","C","D","E","F","G","H","I","J","K","L","M",
                  "N","O","P","Q","R","S","T","U","V","W","X","Y","Z">>

LowerLetters == <<"a","b","c","d","e","f","g","h","i","j","k","l","m",
                  "n","o","p","q","r","s","t","u","v","w","x","y","z">>

DigitChars == <<"0","1","2","3","4","5","6","7","8","9">>

Range(f) == { f[i] : i \in DOMAIN f }

Min(S) == CHOOSE x \in S : \A y \in S : x <= y

Max(S) == CHOOSE x \in S : \A y \in S : x >= y

\* \s of a JavaScript regular expression (the characters the model uses)
SpaceChars == {" ", "\t", "\n", "\r"}

UpperSet == Range(UpperLetters)

DigitSet == Range(DigitChars)

\* \w of a JavaScript regular expression
WordChars == Range(UpperLetters) \cup Range(LowerLetters) \cup Range(DigitChars) \cup {"_"}

IsSpace(c) == c \in SpaceChars

IsDigit(c) == c \in DigitSet

IsWordChar(c) == c \in WordChars

LowerChar(c) ==
    IF c \in UpperSet
    THEN LowerLetters[CHOOSE i \in 1..26 : UpperLetters[i] = c]
    ELSE c

toLowerCase(s) == [i \in 1..Len(s) |-> LowerChar(s[i])]

\* s.includes(needle)
includes(s, needle) ==
    \E i \in 0..(Len(s) - Len(needle)) :
        \A j \in 1..Len(needle) : s[i + j] = needle[j]

\* s.startsWith(prefix)
startsWith(s, prefix) ==
    /\ Len(prefix) <= Len(s)
    /\ \A j \in 1..Len(prefix) : s[j] = prefix[j]

\* s.slice(-n)
sliceLast(s, n) ==
    IF Len(s) <= n THEN s ELSE SubSeq(s, Len(s) - n + 1, Len(s))

\* the first position from i on that holds no whitespace (Len(s) + 1 if none)
skipSpaces(s, i) ==
    IF i > Len(s) THEN i
    ELSE CHOOSE j \in i..(Len(s) + 1) :
            /\ j > Len(s) \/ ~IsSpace(s[j])
            /\ \A m \in i..(j - 1) : IsSpace(s[m])

\* the last position up to i that holds no whitespace (0 if none)
skipSpacesBack(s, i) ==
    IF i < 1 THEN i
    ELSE i - (CHOOSE d \in 0..i :
                /\ d = i \/ ~IsSpace(s[i - d])
                /\ \A m \in (i - d + 1)..i : IsSpace(s[m]))

\* s.trim()
trim(s) == SubSeq(s, skipSpaces(s, 1), skipSpacesBack(s, Len(s)))

\* s.padStart(2, '0')
padStart2(s) == IF Len(s) < 2 THEN <<"0">> \o s ELSE s

\* decimal representation of a non-negative integer (template literal ${n})
RECURSIVE Digits(_)
Digits(n) ==
    IF n < 10 THEN <<DigitChars[n + 1]>>
    ELSE Digits(n \div 10) \o <<DigitChars[(n % 10) + 1]>>

\* s.split(/\s+/): the pieces between maximal whitespace runs; a leading or
\* trailing run yields an empty first or last piece
RECURSIVE splitWs(_, _, _)
splitWs(s, i, cur) ==
    IF i > Len(s) THEN <<cur>>
    ELSE IF IsSpace(s[i])
         THEN IF i > 1 /\ IsSpace(s[i - 1])
              THEN splitWs(s, i + 1, cur)
              ELSE <<cur>> \o splitWs(s, i + 1, <<>>)
         ELSE splitWs(s, i + 1, Append(cur, s[i]))

splitWhitespace(s) == splitWs(s, 1, <<>>)

\* s.split(sep) for a one-character separator
splitChar(s, sep) ==
    LET cuts   == { i \in 1..Len(s) : s[i] = sep }
        bounds == {0} \cup cuts \cup {Len(s) + 1}
        starts == bounds \ {Len(s) + 1}
        nxt(b) == Min({ c \in bounds : c > b })
        ord(b) == Cardinality({ c \in starts : c < b }) + 1
    IN  [k \in 1..Cardinality(starts) |->
            LET b == CHOOSE b \in starts : ord(b) = k
            IN  SubSeq(s, b + 1, nxt(b) - 1)]

\* an array that keeps its duplicates
dedupe_keepAll(seq) == seq

\* [...new Set(seq)]: duplicates removed, first occurrences kept in order
RECURSIVE dedupe(_)
dedupe(seq) ==
    IF seq = <<>> THEN <<>>
    ELSE LET init == dedupe(SubSeq(seq, 1, Len(seq) - 1))
             last == seq[Len(seq)]
         IN  IF last \in Range(init) THEN init ELSE Append(init, last)

\* ------------------------------------------------------------------------
\* QueryExpander: VectorProcessor.expandQuery
\* ------------------------------------------------------------------------

\* keys of monthMap, in the order of the regular expression's alternation
MonthNames ==
    << <<"j","a","n","u","a","r","y">>,
       <<"f","e","b","r","u","a","r","y">>,
       <<"m","a","r","c","h">>,
       <<"a","p","r","i","l">>,
       <<"m","a","y">>,
       <<"j","u","n","e">>,
       <<"j","u","l","y">>,
       <<"a","u","g","u","s","t">>,
       <<"s","e","p","t","e","m","b","e","r">>,
       <<"o","c","t","o","b","e","r">>,
       <<"n","o","v","e","m","b","e","r">>,
       <<"d","e","c","e","m","b","e","r">> >>

\* monthMap[name]: the two-digit month code
monthMap(name) ==
    padStart2(Digits(CHOOSE k \in 1..12 : MonthNames[k] = name))

StopWords ==
    { <<"t","h","e">>,
      <<"a","n","d">>,
      <<"f","o","r">>,
      <<"f","r","o","m">>,
      <<"a","b","o","u","t">>,
      <<"c","a","n">>,
      <<"y","o","u">>,
      <<"t","e","l","l">>,
      <<"a","n","y","t","h","i","n","g">>,
      <<"n","o","t","e","s">> }

DaySuffixes == { <<"s","t">>, <<"n","d">>, <<"r","d">>, <<"t","h">> }

\* one way the date pattern can match at position i: month name k, d digits,
\* a suffix of sfx characters (0 or 2)
dateMatchAt(lq, i, k, d, sfx) ==
    LET name == MonthNames[k]
        p    == i + Len(name)
        q    == skipSpaces(lq, p)
        r    == q + d + sfx
    IN  /\ i = 1 \/ ~IsWordChar(lq[i - 1])
        /\ p - 1 <= Len(lq)
        /\ SubSeq(lq, i, p - 1) = name
        /\ q > p
        /\ r - 1 <= Len(lq)
        /\ \A j \in q..(q + d - 1) : IsDigit(lq[j])
        /\ sfx = 0 \/ SubSeq(lq, q + d, r - 1) \in DaySuffixes
        /\ r > Len(lq) \/ ~IsWordChar(lq[r])

\* lowerQuery.match(/\b(january|...|december)\s+(\d{1,2})(?:st|nd|rd|th)?\b/):
\* leftmost position, then the greedy choices in backtracking order
dateMatch(lq) ==
    LET tries == << <<2, 2>>, <<2, 0>>, <<1, 2>>, <<1, 0>> >>
        hitAt(i) == { <<k, t>> \in (1..12) \X (1..4) :
                        dateMatchAt(lq, i, k, tries[t][1], tries[t][2]) }
        pos == { i \in 1..Len(lq) : hitAt(i) # {} }
    IN  IF pos = {} THEN [found |-> FALSE, month |-> <<>>, day |-> <<>>]
        ELSE LET i   == Min(pos)
                 t   == Min({ h[2] : h \in hitAt(i) })
                 k   == CHOOSE k \in 1..12 : <<k, t>> \in hitAt(i)
                 q   == skipSpaces(lq, i + Len(MonthNames[k]))
             IN  [found |-> TRUE,
                  month |-> MonthNames[k],
                  day   |-> SubSeq(lq, q, q + tries[t][1] - 1)]

dateVariations(m, year) ==
    LET month == monthMap(m.month)
        day   == padStart2(m.day)
        yr    == Digits(year)
    IN  << month \o <<"-">> \o day,
           yr \o <<"-">> \o month \o <<"-">> \o day,
           month \o <<"/">> \o day,
           month \o day,
           yr \o month \o day,
           m.month \o <<" ">> \o m.day,
           m.month \o <<"-">> \o m.day,
           day,
           month >>

\* the filter without its stop-word list
meaningfulWords_noStopWords(lq) ==
    SelectSeq(splitWhitespace(lq), LAMBDA w : Len(w) > 2)

meaningfulWords(lq) ==
    SelectSeq(splitWhitespace(lq), LAMBDA w : Len(w) > 2 /\ w \notin StopWords)

W_meeting == <<"m","e","e","t","i","n","g">>

W_daily == <<"d","a","i","l","y">>

W_appointment == <<"a","p","p","o","i","n","t","m","e","n","t">>

MeetingVariants ==
    << <<"#","#"," ","M","e","e","t","i","n","g","s">>,
       <<"M","e","e","t","i","n","g","s"," ","&"," ","A","p","p","o","i","n","t","m","e","n","t","s">>,
       <<"m","e","e","t","i","n","g"," ","n","o","t","e","s">>,
       <<"a","p","p","o","i","n","t","m","e","n","t">>,
       <<"M","e","e","t","i","n","g">>,
       <<"m","e","e","t","i","n","g","s">> >>

DailyVariants ==
    << <<"d","a","i","l","y"," ","n","o","t","e">>,
       <<"#","#"," ","D","a","i","l","y">>,
       <<"D","a","i","l","y">>,
       <<"t","o","d","a","y">> >>

AppointmentVariants ==
    << <<"#","#"," ","A","p","p","o","i","n","t","m","e","n","t","s">>,
       <<"m","e","e","t","i","n","g">>,
       <<"s","c","h","e","d","u","l","e">>,
       <<"A","p","p","o","i","n","t","m","e","n","t">> >>

dateMeetingVariants(m) ==
    LET md == monthMap(m.month) \o <<"-">> \o padStart2(m.day)
    IN  << md \o <<" ","m","e","e","t","i","n","g">>,
           md \o <<" ","M","e","e","t","i","n","g">>,
           <<"M","e","e","t","i","n","g"," ">> \o md >>

\* the list of pushes, before deduplication
expandPushes(query, year) ==
    LET lowerQuery == toLowerCase(query)
        match      == dateMatch(lowerQuery)
        dates      == IF match.found THEN dateVariations(match, year) ELSE <<>>
    IN  <<query>>
        \o dates \o dates
        \o meaningfulWords(lowerQuery)
        \o (IF includes(lowerQuery, W_meeting) THEN MeetingVariants ELSE <<>>)
        \o (IF includes(lowerQuery, W_daily) THEN DailyVariants ELSE <<>>)
        \o (IF includes(lowerQuery, W_appointment) THEN AppointmentVariants ELSE <<>>)
        \o (IF match.found /\ includes(lowerQuery, W_meeting)
            THEN dateMeetingVariants(match) ELSE <<>>)

expandQuery(query, year) == dedupe(expandPushes(query, year))

\* ------------------------------------------------------------------------
\* Chunker: VectorProcessor.chunkDocument
\* ------------------------------------------------------------------------

maxChunkSize == 1000

overlap == 100

\* text.split(/\n\s*\n/): a separator runs from a newline to the last newline
\* of the whitespace stretch that starts there (\s* is greedy)
sepEnd(text, i) ==
    Max({ j \in i..(skipSpaces(text, i) - 1) : text[j] = "\n" })

RECURSIVE splitParagraphsFrom(_, _)
splitParagraphsFrom(text, from) ==
    LET seps == { i \in from..Len(text) : text[i] = "\n" /\ sepEnd(text, i) > i }
    IN  IF seps = {} THEN << SubSeq(text, from, Len(text)) >>
        ELSE LET i == Min(seps)
             IN  << SubSeq(text, from, i - 1) >>
                 \o splitParagraphsFrom(text, sepEnd(text, i) + 1)

splitParagraphs(text) == splitParagraphsFrom(text, 1)

\* one chunk record as pushed by chunkDocument
makeChunk(chunks, currentChunk) ==
    [text |-> trim(currentChunk), start |-> Len(chunks) * (maxChunkSize - overlap)]

\* the loop of chunkDocument from paragraph k on
RECURSIVE chunkLoop(_, _, _, _)
chunkLoop(paragraphs, k, chunks, currentChunk) ==
    IF k > Len(paragraphs)
    THEN IF trim(currentChunk) # <<>>
         THEN Append(chunks, makeChunk(chunks, currentChunk))
         ELSE chunks
    ELSE LET paragraph == paragraphs[k]
         IN  IF Len(currentChunk) + Len(paragraph) > maxChunkSize /\ Len(currentChunk) > 0
             THEN chunkLoop(paragraphs, k + 1,
                            Append(chunks, makeChunk(chunks, currentChunk)),
                            sliceLast(currentChunk, overlap) \o paragraph)
             ELSE chunkLoop(paragraphs, k + 1, chunks,
                            currentChunk
                              \o (IF currentChunk # <<>> THEN <<"\n", "\n">> ELSE <<>>)
                              \o paragraph)

chunkDocument(document) ==
    LET text   == document.content
        chunks == chunkLoop(splitParagraphs(text), 1, <<>>, <<>>)
    IN  IF Len(chunks) > 0 THEN chunks ELSE << [text |-> trim(text), start |-> 0] >>

\* ------------------------------------------------------------------------
\* Payload helpers: extractTitle, extractTags, generatePointId
\* ------------------------------------------------------------------------

\* frontmatter is a function whose domain is a subset of {"title", "tags"};
\* tags is [isArray |-> BOOLEAN, v |-> a sequence of strings or one string]
hasTruthy(fm, k) == k \in DOMAIN fm /\ fm[k] # <<>>

\* line.match(/^#\s+(.+)$/): the number of whitespace characters \s+ keeps
\* (greedy, backing off until the rest is non-empty and free of line
\* terminators), 0 when the line does not match
headingSpaces(line) ==
    LET ks == { k \in 1..(Len(line) - 2) :
                  /\ \A j \in 2..(k + 1) : IsSpace(line[j])
                  /\ \A j \in (k + 2)..Len(line) : line[j] \notin {"\n", "\r"} }
    IN  IF Len(line) >= 3 /\ line[1] = "#" /\ ks # {} THEN Max(ks) ELSE 0

stripMd(path) ==
    IF Len(path) >= 3 /\ SubSeq(path, Len(path) - 2, Len(path)) = <<".", "m", "d">>
    THEN SubSeq(path, 1, Len(path) - 3)
    ELSE path

extractTitle(document) ==
    IF hasTruthy(document.frontmatter, "title")
    THEN document.frontmatter.title
    ELSE LET lines == splitChar(document.content, "\n")
             hs    == { n \in 1..Len(lines) : headingSpaces(lines[n]) > 0 }
         IN  IF hs # {}
             THEN LET line == lines[Min(hs)]
                  IN  trim(SubSeq(line, headingSpaces(line) + 2, Len(line)))
             ELSE LET parts == splitChar(stripMd(document.path), "/")
                  IN  parts[Len(parts)]

\* [\w-] of the inline tag pattern
IsTagChar(c) == IsWordChar(c) \/ c = "-"

\* the first position from i on that holds no tag character
RECURSIVE skipTagChars(_, _)
skipTagChars(s, i) ==
    IF i > Len(s) \/ ~IsTagChar(s[i]) THEN i ELSE skipTagChars(s, i + 1)

\* document.content.match(/#[\w-]+/g) with the leading '#' removed
inlineTags(content) ==
    LET starts == { i \in 1..(Len(content) - 1) :
                      content[i] = "#" /\ IsTagChar(content[i + 1]) }
        stop(i) == skipTagChars(content, i + 1) - 1
        ord(i)  == Cardinality({ j \in starts : j < i }) + 1
    IN  [n \in 1..Cardinality(starts) |->
            LET i == CHOOSE i \in starts : ord(i) = n
            IN  SubSeq(content, i + 1, stop(i))]

extractTags(document) ==
    LET fm   == document.frontmatter
        head == IF "tags" \in DOMAIN fm /\ fm.tags.v # <<>>
                THEN IF fm.tags.isArray THEN fm.tags.v ELSE << fm.tags.v >>
                ELSE <<>>
    IN  dedupe(head \o inlineTags(document.content))

\* crypto.createHash('md5').update(input).digest('hex'): the digest is kept
\* symbolic, a value determined by the hashed string and by nothing else
md5hex(input) == [md5 |-> input]

generatePointId(filePath, chunkIndex) ==
    md5hex(filePath \o <<"_","c","h","u","n","k","_">> \o Digits(chunkIndex))

\* ------------------------------------------------------------------------
\* Lexical scoring: VectorProcessor.calculateTextScore (hundredths)
\* ------------------------------------------------------------------------

RECURSIVE sumSeq(_)
sumSeq(ns) == IF ns = <<>> THEN 0 ELSE ns[1] + sumSeq(Tail(ns))

calculateTextScore(query, payload) ==
    LET queryLower == toLowerCase(query)
        text       == toLowerCase(payload.text)
        title      == toLowerCase(payload.title)
        filePath   == toLowerCase(payload.file_path)
        queryWords == splitWhitespace(queryLower)
        wordBoost(word) ==
            IF Len(word) > 2
            THEN (IF includes(text, word) THEN 10 ELSE 0)
                 + (IF includes(title, word) THEN 15 ELSE 0)
                 + (IF includes(filePath, word) THEN 5 ELSE 0)
            ELSE 0
        score == 50
                 + (IF includes(text, queryLower) THEN 30 ELSE 0)
                 + (IF includes(title, queryLower) THEN 40 ELSE 0)
                 + (IF includes(filePath, queryLower) THEN 20 ELSE 0)
                 + sumSeq([n \in 1..Len(queryWords) |-> wordBoost(queryWords[n])])
                 + (IF startsWith(text, queryLower) THEN 20 ELSE 0)
    IN  IF score < 100 THEN score ELSE 100

\* the score of one scanned point without the boost for exact matches
fullTextScore_noBoost(searchQuery, payload) == calculateTextScore(searchQuery, payload)

\* the score of one scanned point: calculateTextScore, then the boost for
\* exact matches
fullTextScore(searchQuery, payload) ==
    LET textScore == calculateTextScore(searchQuery, payload)
    IN  IF includes(toLowerCase(payload.text), toLowerCase(searchQuery))
        THEN textScore + 20
        ELSE textScore

\* ------------------------------------------------------------------------
\* VectorStore (Qdrant collection behind QdrantClientWrapper) and
\* EmbeddingClient, as the engine uses them
\* ------------------------------------------------------------------------

\* score_threshold of the similarity search, in hundredths
scoreThreshold == 30

\* similarity scores the store may report for a point (cosine, at or above
\* the threshold)
SemScores == {scoreThreshold, 100}

\* generateEmbedding(text) on success: data.embedding, a vector determined
\* by the prompt
embedding(text) == [embeddingOf |-> text]

\* an upsert that inserts: a point whose id is taken is stored beside the
\* old one
qdrantUpsert_insert(st, points) ==
    LET ids   == { points[n].id : n \in 1..Len(points) }
        pt(i) == points[Max({ n \in 1..Len(points) : points[n].id = i })]
        taken == ids \cap DOMAIN st
    IN  [id \in DOMAIN st \cup ids \cup { [copyOf |-> i] : i \in taken } |->
            IF id \in DOMAIN st THEN st[id]
            ELSE IF id \in ids THEN pt(id)
            ELSE pt(id.copyOf)]

\* qdrantClient.upsert(collection, {wait: true, points}): points are written
\* under their ids, a later point of the batch overwriting an earlier one
qdrantUpsert(st, points) ==
    LET ids == { points[n].id : n \in 1..Len(points) }
    IN  [id \in DOMAIN st \cup ids |->
            IF id \in ids
            THEN points[Max({ n \in 1..Len(points) : points[n].id = id })]
            ELSE st[id]]

\* a delete whose filter is lost (every point matches)
deleteFilter_matchAll(point, filePath) == TRUE

\* the filter {must: [{key: 'file_path', match: {value: filePath}}]}
deleteFilter(point, filePath) == point.payload.file_path = filePath

\* qdrantClient.delete(collection, {filter})
qdrantDelete(st, filePath) ==
    [id \in { i \in DOMAIN st : ~deleteFilter(st[i], filePath) } |-> st[id]]

\* all orderings of the elements of a finite set
Orderings(S) ==
    { q \in [1..Cardinality(S) -> S] : \A a, b \in 1..Cardinality(S) : q[a] = q[b] => a = b }

\* qdrantClient.search(collection, {vector, limit, with_payload, score_threshold}):
\* at most `limit` distinct points, best score first; which points are near
\* the query vector is the store's business
qdrantSearch(st, limit) ==
    LET subsets == { T \in SUBSET DOMAIN st : Cardinality(T) <= limit }
        picks   == UNION { Orderings(S) \X [S -> SemScores] : S \in subsets }
        answer(q, f) ==
            [n \in 1..Len(q) |-> [score |-> f[q[n]], payload |-> st[q[n]].payload]]
        sorted(r) == \A n \in 1..(Len(r) - 1) : r[n].score >= r[n + 1].score
    IN  { r \in { answer(pk[1], pk[2]) : pk \in picks } : sorted(r) }

\* qdrantClient.client.scroll(collection, {filter, limit, with_payload}):
\* at most `limit` distinct points, scored by nobody, in the store's order
qdrantScroll(st, limit) ==
    LET subsets == { T \in SUBSET DOMAIN st : Cardinality(T) <= limit }
    IN  { [n \in 1..Len(q) |-> [payload |-> st[q[n]].payload]] :
            q \in UNION { Orderings(S) : S \in subsets } }

\* ------------------------------------------------------------------------
\* Indexer: the point built by VectorProcessor.processDocument for chunk i
\* (i counts from 0 as in the source)
\* ------------------------------------------------------------------------

\* a point whose id is derived from the chunk's text as well
buildPoint_idOfText(document, i, chunk, vector) ==
    [id      |-> md5hex(document.id \o <<"_","c","h","u","n","k","_">> \o Digits(i) \o chunk.text),
     vector  |-> vector,
     payload |-> [file_path     |-> document.path,
                  chunk_index   |-> i,
                  text          |-> chunk.text,
                  title         |-> extractTitle(document),
                  tags          |-> extractTags(document),
                  frontmatter   |-> document.frontmatter,
                  last_modified |-> document.lastModified]]

buildPoint(document, i, chunk, vector) ==
    [id      |-> generatePointId(document.id, i),
     vector  |-> vector,
     payload |-> [file_path     |-> document.path,
                  chunk_index   |-> i,
                  text          |-> chunk.text,
                  title         |-> extractTitle(document),
                  tags          |-> extractTags(document),
                  frontmatter   |-> document.frontmatter,
                  last_modified |-> document.lastModified]]

\* ------------------------------------------------------------------------
\* Inputs of the model
\* ------------------------------------------------------------------------

\* largest limit a search is called with
MaxLimit == 2

\* length of the long paragraph of LongNote
LongParagraph == 996

PathNote == <<"n",".","m","d">>

PathBob == <<"d","/","b","o","b",".","m","d">>

Paths == {PathNote, PathBob}

\* the documents the caller hands to processDocument (id = path, as built by
\* FileWatcher.handleFileChange); LongNote chunks into two, the others into one
LongNote ==
    [id |-> PathNote, path |-> PathNote,
     content |-> [n \in 1..LongParagraph |-> "a"] \o <<"\n", "\n">> \o <<"t","h","e"," ","B","o","b">>,
     frontmatter |-> <<>>, lastModified |-> "t1"]

ShortNote ==
    [id |-> PathNote, path |-> PathNote,
     content |-> <<"#"," ","B","o","b","\n","\n","b","o","b"," ","#","x">>,
     frontmatter |-> <<>>, lastModified |-> "t2"]

BobNote ==
    [id |-> PathBob, path |-> PathBob,
     content |-> <<"t","h","e"," ","p","l","a","n">>,
     frontmatter |-> [title |-> <<"P","l","a","n">>,
                      tags  |-> [isArray |-> TRUE, v |-> << <<"x">> >>]],
     lastModified |-> "t1"]

Documents == {LongNote, ShortNote, BobNote}

QueryBob == <<"B","o","b">>

QueryThe == <<"t","h","e">>

Queries == {QueryBob, QueryThe}

\* values of new Date().getFullYear()
Years == {2025, 2026}

\* The pure functions of the engine, tabulated over the inputs of the model
\* (each entry is the function applied to that input)
chunksOf == [d \in Documents |-> chunkDocument(d)]

pointsOf ==
    [d \in Documents |->
        [n \in 1..Len(chunksOf[d]) |->
            buildPoint(d, n - 1, chunksOf[d][n], embedding(chunksOf[d][n].text))]]

variantsOf == [q \in Queries |-> [y \in Years |-> expandQuery(q, y)]]

Variants == UNION { Range(variantsOf[q][y]) : q \in Queries, y \in Years }

Payloads == UNION { { pointsOf[d][n].payload : n \in 1..Len(pointsOf[d]) } : d \in Documents }

textScoreOf == [v \in Variants |-> [pl \in Payloads |-> fullTextScore(v, pl)]]

\* ------------------------------------------------------------------------
\* HybridRetriever: merge, fusion
\* ------------------------------------------------------------------------

\* `${point.payload.file_path}_${point.payload.chunk_index}`
resultKey(payload) == payload.file_path \o <<"_">> \o Digits(payload.chunk_index)

\* the value stored in allResults: {score, searchQuery, searchType, ...payload}
makeHit(score, searchQuery, searchType, payload) ==
    [score         |-> score,
     searchQuery   |-> searchQuery,
     searchType    |-> searchType,
     file_path     |-> payload.file_path,
     chunk_index   |-> payload.chunk_index,
     text          |-> payload.text,
     title         |-> payload.title,
     tags          |-> payload.tags,
     frontmatter   |-> payload.frontmatter,
     last_modified |-> payload.last_modified]

\* mergeHit with the comparison turned around (the lower score is kept)
mergeHit_keepLower(allResults, key, hit) ==
    LET at == { n \in 1..Len(allResults) : allResults[n].key = key }
    IN  IF at = {}
        THEN Append(allResults, [key |-> key, value |-> hit])
        ELSE LET n == CHOOSE n \in at : TRUE
             IN  IF allResults[n].value.score > hit.score
                 THEN [allResults EXCEPT ![n] = [key |-> key, value |-> hit]]
                 ELSE allResults

\* mergeHit replacing the entry also on an equal score
mergeHit_replaceOnTie(allResults, key, hit) ==
    LET at == { n \in 1..Len(allResults) : allResults[n].key = key }
    IN  IF at = {}
        THEN Append(allResults, [key |-> key, value |-> hit])
        ELSE LET n == CHOOSE n \in at : TRUE
             IN  IF allResults[n].value.score <= hit.score
                 THEN [allResults EXCEPT ![n] = [key |-> key, value |-> hit]]
                 ELSE allResults

\* mergeHit without the key lookup (every candidate is added)
mergeHit_append(allResults, key, hit) ==
    Append(allResults, [key |-> key, value |-> hit])

\* allResults is a Map: a sequence of [key, value] in insertion order.
\* if (!allResults.has(key) || allResults.get(key).score < score) set(key, hit)
mergeHit(allResults, key, hit) ==
    LET at == { n \in 1..Len(allResults) : allResults[n].key = key }
    IN  IF at = {}
        THEN Append(allResults, [key |-> key, value |-> hit])
        ELSE LET n == CHOOSE n \in at : TRUE
             IN  IF allResults[n].value.score < hit.score
                 THEN [allResults EXCEPT ![n] = [key |-> key, value |-> hit]]
                 ELSE allResults

\* searchResult.forEach(point => ...) of the semantic leg
RECURSIVE mergeSemantic(_, _, _)
mergeSemantic(allResults, searchResult, searchQuery) ==
    IF searchResult = <<>> THEN allResults
    ELSE LET point == Head(searchResult)
         IN  mergeSemantic(
                 mergeHit(allResults, resultKey(point.payload),
                          makeHit(point.score, searchQuery, "semantic", point.payload)),
                 Tail(searchResult), searchQuery)

\* scrollResult.points?.forEach(point => ...) of the lexical leg
RECURSIVE mergeFullText(_, _, _)
mergeFullText(allResults, points, searchQuery) ==
    IF points = <<>> THEN allResults
    ELSE LET point == Head(points)
         IN  mergeFullText(
                 mergeHit(allResults, resultKey(point.payload),
                          makeHit(textScoreOf[searchQuery][point.payload],
                                  searchQuery, "full-text", point.payload)),
                 Tail(points), searchQuery)

\* values.sort((a, b) => b.score - a.score): stable, best score first
RECURSIVE sortByScore(_)
sortByScore(hits) ==
    IF hits = <<>> THEN <<>>
    ELSE LET init == sortByScore(SubSeq(hits, 1, Len(hits) - 1))
             last == hits[Len(hits)]
             keep == { n \in 1..Len(init) : init[n].score >= last.score }
             k    == IF keep = {} THEN 0 ELSE Max(keep)
         IN  SubSeq(init, 1, k) \o <<last>> \o SubSeq(init, k + 1, Len(init))

\* hits.slice(0, limit), limit >= 0
sliceTo(hits, limit) == SubSeq(hits, 1, IF limit < Len(hits) THEN limit ELSE Len(hits))

\* fuse with the comparator turned around (a.score - b.score)
fuse_ascending(allResults, limit) ==
    LET sorted == sortByScore([n \in 1..Len(allResults) |-> allResults[n].value])
    IN  sliceTo([n \in 1..Len(sorted) |-> sorted[Len(sorted) + 1 - n]], limit)

\* Array.from(allResults.values()).sort(...).slice(0, limit)
fuse(allResults, limit) ==
    sliceTo(sortByScore([n \in 1..Len(allResults) |-> allResults[n].value]), limit)

\* ------------------------------------------------------------------------
\* State
\* ------------------------------------------------------------------------

VARIABLES
    store,   \* the collection: point id -> point
    ix,      \* the processDocument call in flight
    rm,      \* the deleteDocument call in flight
    sr,      \* the search call in flight
    ret,     \* what the last call delivered to its caller
    latest,  \* per path, the document of the last index or remove that succeeded
    call,    \* one call of a helper of the engine: its input and its progress
    tool,    \* the search_notes request in the MCP server
    fw       \* the FileWatcher: the notebook, the start-up pass, the handlers in flight

vars == <<store, ix, rm, sr, ret, latest, call, tool, fw>>

NoDocument == [id |-> <<>>, path |-> <<>>, content |-> <<>>,
               frontmatter |-> <<>>, lastModified |-> "never"]

ixIdle == [pc |-> "idle", document |-> NoDocument, chunks |-> <<>>, i |-> 0,
           points |-> <<>>, upserts |-> 0, again |-> FALSE, before |-> <<>>]

rmIdle == [pc |-> "idle", filePath |-> <<>>, before |-> <<>>]

srIdle == [pc |-> "idle", query |-> <<>>, limit |-> 0, queries |-> <<>>, vi |-> 0,
           allResults |-> <<>>, best |-> <<>>,
           embedCalls |-> 0, embedError |-> 0, scrollError |-> 0, legs |-> <<>>]

retNone == [op |-> "none", status |-> "none", value |-> <<>>, call |-> <<>>]

pending(op) == [op |-> op, status |-> "pending", value |-> <<>>, call |-> <<>>]

idle == ix.pc = "idle" /\ rm.pc = "idle" /\ sr.pc = "idle"

\* no helper call is being followed
callNone == [fn |-> "none"]

\* no search_notes request was received
toolIdle == [pc |-> "idle"]

\* the notebook at start: path -> the document its file parses to
diskAtStart == [p \in Paths |-> IF p = PathNote THEN LongNote ELSE BobNote]

\* processExistingFiles was not called
batchOff == [pc |-> "off", files |-> <<>>, k |-> 0, outcomes |-> <<>>]

\* the FileWatcher as constructed, not started: calls are the handler
\* invocations in flight, changed counts the 'add' and 'change' events per
\* path
fwOff ==
    [pc |-> "off", disk |-> diskAtStart, events |-> 0, batch |-> batchOff,
     calls |-> <<>>, failures |-> 0, logged |-> 0, changed |-> [p \in Paths |-> 0]]

Init ==
    /\ store = <<>>
    /\ ix = ixIdle
    /\ rm = rmIdle
    /\ sr = srIdle
    /\ ret = retNone
    /\ latest = [p \in Paths |-> NoDocument]
    /\ call = callNone
    /\ tool = toolIdle
    /\ fw = fwOff

\* ------------------------------------------------------------------------
\* VectorProcessor.processDocument
\* ------------------------------------------------------------------------

\* entry: chunkDocument, points = []
processDocument_begin ==
    /\ idle
    /\ \E document \in Documents :
         ix' = [ixIdle EXCEPT !.pc = "embed",
                              !.document = document,
                              !.chunks = chunksOf[document],
                              !.again = /\ ret.op = "index"
                                        /\ ret.status = "returned"
                                        /\ ret.call.document = document,
                              !.before = store]
    /\ ret' = pending("index")
    /\ UNCHANGED <<store, rm, sr, latest, call, tool, fw>>

\* a loop that writes each point to the store as soon as it is built
processDocument_embed_upsertEach ==
    /\ ix.pc = "embed"
    /\ LET point == pointsOf[ix.document][ix.i + 1]
       IN  /\ ix' = [ix EXCEPT !.points = Append(@, point),
                               !.i = @ + 1,
                               !.upserts = @ + 1,
                               !.pc = IF ix.i + 1 < Len(ix.chunks) THEN "embed" ELSE "upsert"]
           /\ store' = qdrantUpsert(store, <<point>>)
    /\ UNCHANGED <<rm, sr, ret, latest, call, tool, fw>>

\* await generateEmbedding(chunk.text) returns; the point is pushed
processDocument_embed ==
    /\ ix.pc = "embed"
    /\ LET point == pointsOf[ix.document][ix.i + 1]
       IN  ix' = [ix EXCEPT !.points = Append(@, point),
                            !.i = @ + 1,
                            !.pc = IF ix.i + 1 < Len(ix.chunks) THEN "embed" ELSE "upsert"]
    /\ UNCHANGED <<store, rm, sr, ret, latest, call, tool, fw>>

\* an error path that flushes the points built so far
processDocument_embedError_flush ==
    /\ ix.pc = "embed"
    /\ store' = qdrantUpsert(store, ix.points)
    /\ ret' = [op |-> "index", status |-> "raised", value |-> <<>>,
               call |-> [ix EXCEPT !.pc = "embedError",
                                   !.upserts = IF ix.points = <<>> THEN 0 ELSE 1]]
    /\ ix' = ixIdle
    /\ UNCHANGED <<rm, sr, latest, call, tool, fw>>

\* generateEmbedding throws: caught, logged, rethrown
processDocument_embedError ==
    /\ ix.pc = "embed"
    /\ ret' = [op |-> "index", status |-> "raised", value |-> <<>>,
               call |-> [ix EXCEPT !.pc = "embedError"]]
    /\ ix' = ixIdle
    /\ UNCHANGED <<store, rm, sr, latest, call, tool, fw>>

\* await qdrantClient.upsert(collection, {wait: true, points}) returns
processDocument_upsert ==
    /\ ix.pc = "upsert"
    /\ store' = qdrantUpsert(store, ix.points)
    /\ ret' = [op |-> "index", status |-> "returned", value |-> <<>>,
               call |-> [ix EXCEPT !.pc = "done", !.upserts = @ + 1]]
    /\ latest' = [latest EXCEPT ![ix.document.path] = ix.document]
    /\ ix' = ixIdle
    /\ UNCHANGED <<rm, sr, call, tool, fw>>

\* the upsert throws: caught, logged, rethrown
processDocument_upsertError ==
    /\ ix.pc = "upsert"
    /\ ret' = [op |-> "index", status |-> "raised", value |-> <<>>,
               call |-> [ix EXCEPT !.pc = "upsertError"]]
    /\ ix' = ixIdle
    /\ UNCHANGED <<store, rm, sr, latest, call, tool, fw>>

\* ------------------------------------------------------------------------
\* VectorProcessor.deleteDocument
\* ------------------------------------------------------------------------

deleteDocument_begin ==
    /\ idle
    /\ \E filePath \in Paths :
         rm' = [pc |-> "delete", filePath |-> filePath, before |-> store]
    /\ ret' = pending("remove")
    /\ UNCHANGED <<store, ix, sr, latest, call, tool, fw>>

\* await qdrantClient.delete(collection, {filter}) returns
deleteDocument_delete ==
    /\ rm.pc = "delete"
    /\ store' = qdrantDelete(store, rm.filePath)
    /\ ret' = [op |-> "remove", status |-> "returned", value |-> <<>>,
               call |-> [rm EXCEPT !.pc = "done"]]
    /\ latest' = [latest EXCEPT ![rm.filePath] = NoDocument]
    /\ rm' = rmIdle
    /\ UNCHANGED <<ix, sr, call, tool, fw>>

\* the delete throws: caught, logged, rethrown
deleteDocument_deleteError ==
    /\ rm.pc = "delete"
    /\ ret' = [op |-> "remove", status |-> "raised", value |-> <<>>,
               call |-> [rm EXCEPT !.pc = "deleteError"]]
    /\ rm' = rmIdle
    /\ UNCHANGED <<store, ix, sr, latest, call, tool, fw>>

\* ------------------------------------------------------------------------
\* VectorProcessor.search and addFullTextResults
\* ------------------------------------------------------------------------

\* the candidates a leg produced for one variant, recorded per
\* (file_path, chunk_index): the best score seen so far, every
\* (variant, leg) that produced it and the one that produced it first
RECURSIVE noteCandidates(_, _)
noteCandidates(best, cs) ==
    IF cs = <<>> THEN best
    ELSE LET c   == Head(cs)
             who == {<<c.searchQuery, c.searchType>>}
             new == IF c.pair \notin DOMAIN best \/ best[c.pair].score < c.score
                    THEN [score |-> c.score, by |-> who,
                          first |-> <<c.searchQuery, c.searchType>>]
                    ELSE IF best[c.pair].score = c.score
                         THEN [best[c.pair] EXCEPT !.by = @ \cup who]
                         ELSE best[c.pair]
         IN  noteCandidates([k \in DOMAIN best \cup {c.pair} |->
                                IF k = c.pair THEN new ELSE best[k]],
                            Tail(cs))

candidate(payload, score, searchQuery, searchType) ==
    [pair |-> <<payload.file_path, payload.chunk_index>>, score |-> score,
     searchQuery |-> searchQuery, searchType |-> searchType]

\* entry: queries = expandQuery(query), allResults = new Map()
search_begin ==
    /\ idle
    /\ \E query \in Queries, limit \in 0..MaxLimit, year \in Years :
         sr' = [srIdle EXCEPT !.pc = "embed",
                              !.query = query,
                              !.limit = limit,
                              !.queries = variantsOf[query][year],
                              !.vi = 1]
    /\ ret' = pending("search")
    /\ UNCHANGED <<store, ix, rm, latest, call, tool, fw>>

\* await generateEmbedding(searchQuery) returns
search_embed ==
    /\ sr.pc = "embed"
    /\ sr' = [sr EXCEPT !.pc = "semantic", !.embedCalls = @ + 1]
    /\ UNCHANGED <<store, ix, rm, ret, latest, call, tool, fw>>

\* an embedding failure that is swallowed like a lexical one: the loop is
\* left and the hits merged so far are returned
search_embedError_swallow ==
    /\ sr.pc = "embed"
    /\ sr' = [sr EXCEPT !.pc = "fusion", !.embedCalls = @ + 1, !.embedError = sr.vi]
    /\ UNCHANGED <<store, ix, rm, ret, latest, call, tool, fw>>

\* generateEmbedding throws: caught by search, logged, rethrown
search_embedError ==
    /\ sr.pc = "embed"
    /\ ret' = [op |-> "search", status |-> "raised", value |-> <<>>,
               call |-> [sr EXCEPT !.pc = "embedError", !.embedCalls = @ + 1,
                                   !.embedError = sr.vi]]
    /\ sr' = srIdle
    /\ UNCHANGED <<store, ix, rm, latest, call, tool, fw>>

\* a loop whose body runs the lexical scan of a variant right after its
\* similarity search
search_semantic_thenScroll ==
    /\ sr.pc = "semantic"
    /\ \E searchResult \in qdrantSearch(store, sr.limit * 2) :
         LET searchQuery == sr.queries[sr.vi]
         IN  sr' = [sr EXCEPT
                      !.allResults = mergeSemantic(@, searchResult, searchQuery),
                      !.best = noteCandidates(@,
                                  [n \in 1..Len(searchResult) |->
                                      candidate(searchResult[n].payload, searchResult[n].score,
                                                searchQuery, "semantic")]),
                      !.legs = Append(@, [variant |-> sr.vi, leg |-> "semantic"]),
                      !.pc = "scroll"]
    /\ UNCHANGED <<store, ix, rm, ret, latest, call, tool, fw>>

\* await qdrantClient.search(...) returns; its points are merged; after the
\* last variant the loop ends and addFullTextResults is entered
search_semantic ==
    /\ sr.pc = "semantic"
    /\ \E searchResult \in qdrantSearch(store, sr.limit * 2) :
         LET searchQuery == sr.queries[sr.vi]
             last        == sr.vi = Len(sr.queries)
         IN  sr' = [sr EXCEPT
                      !.allResults = mergeSemantic(@, searchResult, searchQuery),
                      !.best = noteCandidates(@,
                                  [n \in 1..Len(searchResult) |->
                                      candidate(searchResult[n].payload, searchResult[n].score,
                                                searchQuery, "semantic")]),
                      !.legs = Append(@, [variant |-> sr.vi, leg |-> "semantic"]),
                      !.vi = IF last THEN 1 ELSE @ + 1,
                      !.pc = IF last THEN "scroll" ELSE "embed"]
    /\ UNCHANGED <<store, ix, rm, ret, latest, call, tool, fw>>

\* qdrantClient.search throws: caught by search, logged, rethrown
search_semanticError ==
    /\ sr.pc = "semantic"
    /\ ret' = [op |-> "search", status |-> "raised", value |-> <<>>,
               call |-> [sr EXCEPT !.pc = "semanticError"]]
    /\ sr' = srIdle
    /\ UNCHANGED <<store, ix, rm, latest, call, tool, fw>>

\* await qdrantClient.client.scroll(...) returns; its points are scored and
\* merged; after the last variant addFullTextResults returns
addFullTextResults_scroll ==
    /\ sr.pc = "scroll"
    /\ \E points \in qdrantScroll(store, sr.limit * 2) :
         LET searchQuery == sr.queries[sr.vi]
             last        == sr.vi = Len(sr.queries)
         IN  sr' = [sr EXCEPT
                      !.allResults = mergeFullText(@, points, searchQuery),
                      !.best = noteCandidates(@,
                                  [n \in 1..Len(points) |->
                                      candidate(points[n].payload,
                                                textScoreOf[searchQuery][points[n].payload],
                                                searchQuery, "full-text")]),
                      !.legs = Append(@, [variant |-> sr.vi, leg |-> "lexical"]),
                      !.vi = IF last THEN @ ELSE @ + 1,
                      !.pc = IF last THEN "fusion" ELSE "scroll"]
    /\ UNCHANGED <<store, ix, rm, ret, latest, call, tool, fw>>

\* a scroll failure that is not caught: search raises
addFullTextResults_scrollError_rethrow ==
    /\ sr.pc = "scroll"
    /\ ret' = [op |-> "search", status |-> "raised", value |-> <<>>,
               call |-> [sr EXCEPT !.pc = "scrollError", !.scrollError = sr.vi]]
    /\ sr' = srIdle
    /\ UNCHANGED <<store, ix, rm, latest, call, tool, fw>>

\* a catch inside the loop: the failed variant is skipped and the scan of
\* the next variant is run
addFullTextResults_scrollError_skipVariant ==
    /\ sr.pc = "scroll"
    /\ sr' = [sr EXCEPT !.pc = IF sr.vi = Len(sr.queries) THEN "fusion" ELSE "scroll",
                        !.vi = IF sr.vi = Len(sr.queries) THEN @ ELSE @ + 1,
                        !.scrollError = sr.vi]
    /\ UNCHANGED <<store, ix, rm, ret, latest, call, tool, fw>>

\* the scroll throws: caught by addFullTextResults, which logs and returns
addFullTextResults_scrollError ==
    /\ sr.pc = "scroll"
    /\ sr' = [sr EXCEPT !.pc = "fusion", !.scrollError = sr.vi]
    /\ UNCHANGED <<store, ix, rm, ret, latest, call, tool, fw>>

\* sort by score, slice, return
search_return ==
    /\ sr.pc = "fusion"
    /\ ret' = [op |-> "search", status |-> "returned",
               value |-> fuse(sr.allResults, sr.limit),
               call |-> [sr EXCEPT !.pc = "done"]]
    /\ sr' = srIdle
    /\ UNCHANGED <<store, ix, rm, latest, call, tool, fw>>

\* ------------------------------------------------------------------------
\* VectorProcessor.chunkDocument, one iteration of its loop at a time
\* ------------------------------------------------------------------------

\* largest number of paragraphs of a chunked content
MaxParagraphs == 3

\* the paragraphs contents are built from: `pad` spaces followed by `len`
\* letters (the letter tells the paragraph's position)
ParagraphKinds ==
    { [pad |-> 0, len |-> 0], [pad |-> 0, len |-> 3], [pad |-> 2, len |-> 3],
      [pad |-> 0, len |-> 500], [pad |-> 0, len |-> 600],
      [pad |-> 0, len |-> maxChunkSize], [pad |-> 0, len |-> maxChunkSize + 1],
      [pad |-> 600, len |-> 0] }

paragraphText(kind, k) ==
    [n \in 1..kind.pad |-> " "] \o [n \in 1..kind.len |-> LowerLetters[k]]

\* the content whose paragraphs are of the given kinds, blank lines between
RECURSIVE contentOf(_, _)
contentOf(kinds, k) ==
    IF k > Len(kinds) THEN <<>>
    ELSE (IF k > 1 THEN <<"\n", "\n">> ELSE <<>>)
         \o paragraphText(kinds[k], k) \o contentOf(kinds, k + 1)

\* document.content of the documents handed to chunkDocument
ChunkContents ==
    { contentOf(kinds, 1) :
        kinds \in UNION { [1..n -> ParagraphKinds] : n \in 0..MaxParagraphs } }

\* entry of chunkDocument: the content is split, chunks = [], currentChunk = ''
\* (seam, from, parts: for each chunk, the overlap copied into it and the
\* paragraphs appended to it)
chunkEntry(text) ==
    [fn |-> "chunkDocument", pc |-> "loop", text |-> text,
     paragraphs |-> splitParagraphs(text), k |-> 1,
     chunks |-> <<>>, currentChunk |-> <<>>,
     seam |-> <<>>, from |-> 1, parts |-> <<>>, result |-> <<>>]

\* the condition of the loop's if
mustFlush(currentChunk, paragraph) ==
    Len(currentChunk) + Len(paragraph) > maxChunkSize /\ Len(currentChunk) > 0

\* a flush that starts the next chunk from the overlap alone
chunkDocument_flush_dropParagraph ==
    /\ call.fn = "chunkDocument" /\ call.pc = "loop"
    /\ call.k <= Len(call.paragraphs)
    /\ mustFlush(call.currentChunk, call.paragraphs[call.k])
    /\ call' = [call EXCEPT
                  !.chunks = Append(@, makeChunk(call.chunks, call.currentChunk)),
                  !.parts = Append(@, [seam |-> call.seam, from |-> call.from,
                                       to |-> call.k - 1]),
                  !.currentChunk = sliceLast(call.currentChunk, overlap),
                  !.seam = sliceLast(call.currentChunk, overlap),
                  !.from = call.k,
                  !.k = @ + 1]
    /\ UNCHANGED <<store, ix, rm, sr, ret, latest, tool, fw>>

\* a flush that joins the overlap and the paragraph with a blank line
chunkDocument_flush_blankLine ==
    /\ call.fn = "chunkDocument" /\ call.pc = "loop"
    /\ call.k <= Len(call.paragraphs)
    /\ mustFlush(call.currentChunk, call.paragraphs[call.k])
    /\ call' = [call EXCEPT
                  !.chunks = Append(@, makeChunk(call.chunks, call.currentChunk)),
                  !.parts = Append(@, [seam |-> call.seam, from |-> call.from,
                                       to |-> call.k - 1]),
                  !.currentChunk = sliceLast(call.currentChunk, overlap)
                                     \o <<"\n", "\n">> \o call.paragraphs[call.k],
                  !.seam = sliceLast(call.currentChunk, overlap),
                  !.from = call.k,
                  !.k = @ + 1]
    /\ UNCHANGED <<store, ix, rm, sr, ret, latest, tool, fw>>

\* the paragraph does not fit: the current chunk is pushed and the next one
\* starts with its last `overlap` characters, followed by the paragraph
chunkDocument_flush ==
    /\ call.fn = "chunkDocument" /\ call.pc = "loop"
    /\ call.k <= Len(call.paragraphs)
    /\ mustFlush(call.currentChunk, call.paragraphs[call.k])
    /\ call' = [call EXCEPT
                  !.chunks = Append(@, makeChunk(call.chunks, call.currentChunk)),
                  !.parts = Append(@, [seam |-> call.seam, from |-> call.from,
                                       to |-> call.k - 1]),
                  !.currentChunk = sliceLast(call.currentChunk, overlap)
                                     \o call.paragraphs[call.k],
                  !.seam = sliceLast(call.currentChunk, overlap),
                  !.from = call.k,
                  !.k = @ + 1]
    /\ UNCHANGED <<store, ix, rm, sr, ret, latest, tool, fw>>

\* the paragraph fits: it is appended after a blank line
chunkDocument_append ==
    /\ call.fn = "chunkDocument" /\ call.pc = "loop"
    /\ call.k <= Len(call.paragraphs)
    /\ ~mustFlush(call.currentChunk, call.paragraphs[call.k])
    /\ call' = [call EXCEPT
                  !.currentChunk = @ \o (IF @ # <<>> THEN <<"\n", "\n">> ELSE <<>>)
                                     \o call.paragraphs[call.k],
                  !.k = @ + 1]
    /\ UNCHANGED <<store, ix, rm, sr, ret, latest, tool, fw>>

\* a return without the fallback chunk
chunkDocument_return_noFallback ==
    /\ call.fn = "chunkDocument" /\ call.pc = "loop"
    /\ call.k > Len(call.paragraphs)
    /\ LET rest   == trim(call.currentChunk) # <<>>
           chunks == IF rest THEN Append(call.chunks, makeChunk(call.chunks, call.currentChunk))
                     ELSE call.chunks
           parts  == IF rest THEN Append(call.parts, [seam |-> call.seam, from |-> call.from,
                                                      to |-> call.k - 1])
                     ELSE call.parts
       IN  call' = [call EXCEPT !.pc = "done", !.chunks = chunks, !.parts = parts,
                                !.result = chunks]
    /\ UNCHANGED <<store, ix, rm, sr, ret, latest, tool, fw>>

\* after the loop: the rest is pushed unless it is blank; the chunks are
\* returned, or one chunk of the trimmed content when there is none
chunkDocument_return ==
    /\ call.fn = "chunkDocument" /\ call.pc = "loop"
    /\ call.k > Len(call.paragraphs)
    /\ LET rest   == trim(call.currentChunk) # <<>>
           chunks == IF rest THEN Append(call.chunks, makeChunk(call.chunks, call.currentChunk))
                     ELSE call.chunks
           parts  == IF rest THEN Append(call.parts, [seam |-> call.seam, from |-> call.from,
                                                      to |-> call.k - 1])
                     ELSE call.parts
       IN  call' = [call EXCEPT !.pc = "done", !.chunks = chunks, !.parts = parts,
                                !.result = IF Len(chunks) > 0 THEN chunks
                                           ELSE << [text |-> trim(call.text), start |-> 0] >>]
    /\ UNCHANGED <<store, ix, rm, sr, ret, latest, tool, fw>>

ChunkInit ==
    /\ store = <<>>
    /\ ix = ixIdle
    /\ rm = rmIdle
    /\ sr = srIdle
    /\ ret = retNone
    /\ latest = [p \in Paths |-> NoDocument]
    /\ call \in { chunkEntry(text) : text \in ChunkContents }
    /\ tool = toolIdle
    /\ fw = fwOff

ChunkNext ==
    \/ chunkDocument_flush
    \/ chunkDocument_append
    \/ chunkDocument_return

ChunkSpec == ChunkInit /\ [][ChunkNext]_vars

\* ------------------------------------------------------------------------
\* VectorProcessor.expandQuery, called on its own
\* ------------------------------------------------------------------------

\* largest number of words of an expanded query
MaxWords == 4

\* the words queries are built from (the empty word gives queries with
\* leading, trailing and doubled spaces)
QueryWords ==
    { <<>>,
      <<"m","e","e","t","i","n","g">>,
      <<"o","n">>,
      <<"J","u","l","y">>,
      <<"4","t","h">>,
      <<"D","a","i","l","y">>,
      <<"n","o","t","e","s">> }

\* the words joined by single spaces
RECURSIVE joinWords(_)
joinWords(words) ==
    IF words = <<>> THEN <<>>
    ELSE IF Len(words) = 1 THEN words[1]
    ELSE words[1] \o <<" ">> \o joinWords(Tail(words))

\* the query argument of the calls
ExpandQueries ==
    { joinWords(words) :
        words \in UNION { [1..n -> QueryWords] : n \in 0..MaxWords } }

expandEntry(query, year) ==
    [fn |-> "expandQuery", pc |-> "called", query |-> query, year |-> year,
     pushes |-> <<>>, keywords |-> <<>>, result |-> <<>>]

\* the call runs to its return: queries as pushed (keywords: the pushes of
\* meaningfulWords.forEach), then [...new Set(queries)]
expandQuery_return ==
    /\ call.fn = "expandQuery" /\ call.pc = "called"
    /\ call' = [call EXCEPT !.pc = "done",
                            !.pushes = expandPushes(call.query, call.year),
                            !.keywords = meaningfulWords(toLowerCase(call.query)),
                            !.result = expandQuery(call.query, call.year)]
    /\ UNCHANGED <<store, ix, rm, sr, ret, latest, tool, fw>>

ExpandInit ==
    /\ store = <<>>
    /\ ix = ixIdle
    /\ rm = rmIdle
    /\ sr = srIdle
    /\ ret = retNone
    /\ latest = [p \in Paths |-> NoDocument]
    /\ call \in { expandEntry(query, year) : query \in ExpandQueries, year \in Years }
    /\ tool = toolIdle
    /\ fw = fwOff

ExpandNext == expandQuery_return

ExpandSpec == ExpandInit /\ [][ExpandNext]_vars

\* ------------------------------------------------------------------------
\* VectorProcessor.extractTitle, called on its own
\* ------------------------------------------------------------------------

\* largest number of lines of a titled content
MaxLines == 2

\* the lines contents are built from
TitleLines ==
    { <<"#"," ","L","a","u","n","c","h">>,
      <<"#"," ","O","t","h","e","r"," ","H","e","a","d","i","n","g">>,
      <<"#","#"," ","S","u","b">>,
      <<"t","e","x","t">>,
      <<"#","x">>,
      <<"#"," "," ","P","a","d","d","e","d"," ">> }

\* line endings of a note file: LF or CRLF
LineEndings == { <<"\n">>, <<"\r", "\n">> }

RECURSIVE joinLines(_, _)
joinLines(lines, eol) ==
    IF lines = <<>> THEN <<>>
    ELSE IF Len(lines) = 1 THEN lines[1]
    ELSE lines[1] \o eol \o joinLines(Tail(lines), eol)

\* parsed.content of the notes: the lines, with or without a final line ending
TitleContents ==
    { joinLines(lines, eol) \o last :
        lines \in UNION { [1..n -> TitleLines] : n \in 0..MaxLines },
        eol \in LineEndings,
        last \in {<<>>, <<"\n">>, <<"\r", "\n">>} }

\* parsed.data of the notes: no title, an empty title, a title
TitleFrontmatters ==
    { <<>>, [title |-> <<>>], [title |-> <<"P","l","a","n">>] }

TitleDocuments ==
    { [id |-> path, path |-> path, content |-> content, frontmatter |-> fm,
       lastModified |-> "t1"] :
        path \in Paths, content \in TitleContents, fm \in TitleFrontmatters }

titleEntry(document) ==
    [fn |-> "extractTitle", pc |-> "called", document |-> document, result |-> <<>>]

extractTitle_return ==
    /\ call.fn = "extractTitle" /\ call.pc = "called"
    /\ call' = [call EXCEPT !.pc = "done", !.result = extractTitle(call.document)]
    /\ UNCHANGED <<store, ix, rm, sr, ret, latest, tool, fw>>

TitleInit ==
    /\ store = <<>>
    /\ ix = ixIdle
    /\ rm = rmIdle
    /\ sr = srIdle
    /\ ret = retNone
    /\ latest = [p \in Paths |-> NoDocument]
    /\ call \in { titleEntry(document) : document \in TitleDocuments }
    /\ tool = toolIdle
    /\ fw = fwOff

TitleNext == extractTitle_return

TitleSpec == TitleInit /\ [][TitleNext]_vars

\* ------------------------------------------------------------------------
\* The search_notes tool: the CallTool request handler of the MCP server and
\* handleSearchNotes (SearchNotesTool.handler in the registry-based server)
\* ------------------------------------------------------------------------

\* the two request handlers of the repository
Servers == {"src/mcpServer.js", "dist/mcpServer.js"}

\* the arguments of a request: query may be missing; an empty or missing
\* query is falsy
ToolArgs ==
    { [hasQuery |-> TRUE, query |-> q, limit |-> l] :
        q \in Queries \cup {<<>>}, l \in 1..MaxLimit }
      \cup { [hasQuery |-> FALSE, query |-> <<>>, limit |-> l] : l \in 1..MaxLimit }

\* !query
falsyQuery(args) == ~args.hasQuery \/ args.query = <<>>

\* the catch of the CallTool request handler: src/mcpServer.js wraps every
\* error into InternalError, dist/mcpServer.js rethrows an McpError as it is
dispatchError(server, error) ==
    IF server = "src/mcpServer.js" THEN "InternalError" ELSE error

toolRaised(server, args, error) ==
    [pc |-> "raised", server |-> server, args |-> args,
     error |-> dispatchError(server, error), response |-> <<>>]

\* result.text.substring(0, 200) + '...'
textPreview(text) ==
    (IF Len(text) > 200 THEN SubSeq(text, 1, 200) ELSE text) \o <<".", ".", ".">>

\* the response built from the hits
toolResponse(args, results) ==
    [query         |-> args.query,
     results       |-> [n \in 1..Len(results) |->
                          [file_path         |-> results[n].file_path,
                           title             |-> results[n].title,
                           score             |-> results[n].score,
                           search_type       |-> results[n].searchType,
                           search_query_used |-> results[n].searchQuery,
                           text_preview      |-> textPreview(results[n].text),
                           tags              |-> results[n].tags,
                           chunk_index       |-> results[n].chunk_index]],
     total_results |-> Len(results)]

toolFree == tool.pc \in {"idle", "returned", "raised"}

\* a request whose query is falsy: handleSearchNotes throws
\* McpError(InvalidParams), which passes through the request handler's catch
handleSearchNotes_invalid ==
    /\ idle /\ toolFree
    /\ \E server \in Servers, args \in ToolArgs :
         /\ falsyQuery(args)
         /\ tool' = toolRaised(server, args, "InvalidParams")
    /\ UNCHANGED <<store, ix, rm, sr, ret, latest, call, fw>>

\* a request with a query: vectorProcessor.search(query, limit) is entered
\* (queries = expandQuery(query), allResults = new Map()) and awaited
handleSearchNotes_search ==
    /\ idle /\ toolFree
    /\ \E server \in Servers, args \in ToolArgs, year \in Years :
         /\ ~falsyQuery(args)
         /\ tool' = [pc |-> "search", server |-> server, args |-> args,
                     error |-> "none", response |-> <<>>]
         /\ sr' = [srIdle EXCEPT !.pc = "embed",
                                 !.query = args.query,
                                 !.limit = args.limit,
                                 !.queries = variantsOf[args.query][year],
                                 !.vi = 1]
    /\ ret' = pending("search")
    /\ UNCHANGED <<store, ix, rm, latest, call, fw>>

\* search returned: the response is built
handleSearchNotes_return ==
    /\ tool.pc = "search"
    /\ ret.op = "search" /\ ret.status = "returned"
    /\ tool' = [tool EXCEPT !.pc = "returned",
                            !.response = toolResponse(tool.args, ret.value)]
    /\ UNCHANGED <<store, ix, rm, sr, ret, latest, call, fw>>

\* search raised: McpError(InternalError, 'Search failed: ...')
handleSearchNotes_searchError ==
    /\ tool.pc = "search"
    /\ ret.op = "search" /\ ret.status = "raised"
    /\ tool' = toolRaised(tool.server, tool.args, "InternalError")
    /\ UNCHANGED <<store, ix, rm, sr, ret, latest, call, fw>>

\* the server answers requests over a collection that holds one indexed note
ToolInit ==
    /\ store = qdrantUpsert(<<>>, pointsOf[BobNote])
    /\ ix = ixIdle
    /\ rm = rmIdle
    /\ sr = srIdle
    /\ ret = retNone
    /\ latest = [p \in Paths |-> IF p = PathBob THEN BobNote ELSE NoDocument]
    /\ call = callNone
    /\ tool = toolIdle
    /\ fw = fwOff

ToolNext ==
    \/ handleSearchNotes_invalid
    \/ handleSearchNotes_search
    \/ handleSearchNotes_return
    \/ handleSearchNotes_searchError
    \/ search_embed
    \/ search_embedError
    \/ search_semantic
    \/ search_semanticError
    \/ addFullTextResults_scroll
    \/ addFullTextResults_scrollError
    \/ search_return

ToolSpec == ToolInit /\ [][ToolNext]_vars

\* ------------------------------------------------------------------------
\* FileWatcher: the events of the watcher, the start-up pass over the
\* existing files (processExistingFiles) and the handlers, which run
\* concurrently and interleave at their awaits
\* ------------------------------------------------------------------------

\* largest number of add, change and unlink events after start
MaxEvents == 1

\* the watcher after start()
fwStarted == [fwOff EXCEPT !.pc = "watching"]

\* an invocation of handleFileChange (kind "change") or handleFileDelete
\* (kind "delete"), by an event or by processExistingFiles ("batch")
newCall(kind, by, path) ==
    [kind |-> kind, by |-> by, path |-> path,
     pc |-> IF kind = "change" THEN "read" ELSE "delete",
     document |-> NoDocument, i |-> 0, points |-> <<>>]

removeAt(seq, n) == SubSeq(seq, 1, n - 1) \o SubSeq(seq, n + 1, Len(seq))

\* the files on disk, in the orders readdir may list them
existingFiles(disk) == Orderings({ p \in Paths : disk[p] # NoDocument })

\* start(): the watcher is created and its handlers registered
start ==
    /\ fw.pc = "off"
    /\ fw' = fwStarted
    /\ UNCHANGED <<store, ix, rm, sr, ret, latest, call, tool>>

\* 'add' or 'change' for a file of the notebook (written by the user, or
\* found by the initial scan): handleFileChange is called, not awaited
onAddOrChange ==
    /\ fw.pc = "watching" /\ fw.events < MaxEvents
    /\ \E document \in Documents :
         fw' = [fw EXCEPT !.events = @ + 1,
                          !.changed[document.path] = @ + 1,
                          !.disk[document.path] = document,
                          !.calls = Append(@, newCall("change", "event", document.path))]
    /\ UNCHANGED <<store, ix, rm, sr, ret, latest, call, tool>>

\* 'unlink': handleFileDelete is called, not awaited
onUnlink ==
    /\ fw.pc = "watching" /\ fw.events < MaxEvents
    /\ \E path \in Paths :
         /\ fw.disk[path] # NoDocument
         /\ fw' = [fw EXCEPT !.events = @ + 1,
                             !.disk[path] = NoDocument,
                             !.calls = Append(@, newCall("delete", "event", path))]
    /\ UNCHANGED <<store, ix, rm, sr, ret, latest, call, tool>>

\* 'ready': processExistingFiles is called, not awaited
onReady ==
    /\ fw.pc = "watching" /\ fw.batch.pc = "off"
    /\ fw' = [fw EXCEPT !.batch.pc = "list"]
    /\ UNCHANGED <<store, ix, rm, sr, ret, latest, call, tool>>

\* await getMarkdownFiles(...) returns the files
processExistingFiles_list ==
    /\ fw.batch.pc = "list"
    /\ \E files \in existingFiles(fw.disk) :
         fw' = [fw EXCEPT !.batch.pc = "loop", !.batch.files = files, !.batch.k = 1]
    /\ UNCHANGED <<store, ix, rm, sr, ret, latest, call, tool>>

\* getMarkdownFiles throws: caught by processExistingFiles, logged
processExistingFiles_listError ==
    /\ fw.batch.pc = "list"
    /\ fw' = [fw EXCEPT !.batch.pc = "listError", !.logged = @ + 1]
    /\ UNCHANGED <<store, ix, rm, sr, ret, latest, call, tool>>

\* one iteration of the loop: handleFileChange(relativePath, 'initial') is
\* called and awaited; after the last file the pass is over
processExistingFiles_next ==
    /\ fw.batch.pc = "loop"
    /\ fw' = IF fw.batch.k <= Len(fw.batch.files)
             THEN [fw EXCEPT !.batch.pc = "await",
                             !.calls = Append(@, newCall("change", "batch",
                                                         fw.batch.files[fw.batch.k]))]
             ELSE [fw EXCEPT !.batch.pc = "done"]
    /\ UNCHANGED <<store, ix, rm, sr, ret, latest, call, tool>>

\* handler invocation c is over: it leaves the calls; the loop of
\* processExistingFiles goes on when it awaited this invocation
callOver(c, outcome) ==
    LET this == fw.calls[c]
    IN  [fw EXCEPT
           !.calls = removeAt(@, c),
           !.batch = IF this.by = "batch"
                     THEN [@ EXCEPT !.pc = "loop", !.k = @ + 1,
                                    !.outcomes = Append(@, [path |-> this.path,
                                                            outcome |-> outcome])]
                     ELSE @]

\* a handler that lets the error out: processExistingFiles' catch ends the
\* pass, an event's promise is rejected and nobody handles it
callFailed_uncaught(c, outcome) ==
    LET this == fw.calls[c]
    IN  IF this.by = "batch"
        THEN [fw EXCEPT !.calls = removeAt(@, c), !.batch.pc = "aborted",
                        !.failures = @ + 1, !.logged = @ + 1]
        ELSE [fw EXCEPT !.calls = removeAt(@, c), !.pc = "crashed",
                        !.failures = @ + 1]

\* the catch of the handler: the error is logged, the handler returns
callFailed(c, outcome) ==
    [callOver(c, outcome) EXCEPT !.failures = @ + 1, !.logged = @ + 1]

\* await fs.readFile returns; the document is built; processDocument is
\* entered (chunkDocument, points = [])
handleFileChange_read ==
    \E c \in 1..Len(fw.calls) :
        /\ fw.calls[c].kind = "change" /\ fw.calls[c].pc = "read"
        /\ fw.disk[fw.calls[c].path] # NoDocument
        /\ fw' = [fw EXCEPT !.calls[c].pc = "embed",
                            !.calls[c].document = fw.disk[fw.calls[c].path]]
        /\ UNCHANGED <<store, ix, rm, sr, ret, latest, call, tool>>

\* fs.readFile throws (the file is gone, or cannot be read)
handleFileChange_readError ==
    \E c \in 1..Len(fw.calls) :
        /\ fw.calls[c].kind = "change" /\ fw.calls[c].pc = "read"
        /\ fw' = callFailed(c, "readError")
        /\ UNCHANGED <<store, ix, rm, sr, ret, latest, call, tool>>

\* processDocument: await generateEmbedding(chunk.text) returns
handleFileChange_embed ==
    \E c \in 1..Len(fw.calls) :
        LET this   == fw.calls[c]
            points == pointsOf[this.document]
        IN  /\ this.kind = "change" /\ this.pc = "embed"
            /\ fw' = [fw EXCEPT !.calls[c].points = Append(@, points[this.i + 1]),
                                !.calls[c].i = @ + 1,
                                !.calls[c].pc = IF this.i + 1 < Len(points)
                                                THEN "embed" ELSE "upsert"]
            /\ UNCHANGED <<store, ix, rm, sr, ret, latest, call, tool>>

\* processDocument: generateEmbedding throws; rethrown to handleFileChange
handleFileChange_embedError ==
    \E c \in 1..Len(fw.calls) :
        /\ fw.calls[c].kind = "change" /\ fw.calls[c].pc = "embed"
        /\ fw' = callFailed(c, "embedError")
        /\ UNCHANGED <<store, ix, rm, sr, ret, latest, call, tool>>

\* processDocument: await qdrantClient.upsert returns
handleFileChange_upsert ==
    \E c \in 1..Len(fw.calls) :
        /\ fw.calls[c].kind = "change" /\ fw.calls[c].pc = "upsert"
        /\ store' = qdrantUpsert(store, fw.calls[c].points)
        /\ fw' = callOver(c, "indexed")
        /\ UNCHANGED <<ix, rm, sr, ret, latest, call, tool>>

\* processDocument: the upsert throws; rethrown to handleFileChange
handleFileChange_upsertError ==
    \E c \in 1..Len(fw.calls) :
        /\ fw.calls[c].kind = "change" /\ fw.calls[c].pc = "upsert"
        /\ fw' = callFailed(c, "upsertError")
        /\ UNCHANGED <<store, ix, rm, sr, ret, latest, call, tool>>

\* deleteDocument: await qdrantClient.delete returns
handleFileDelete_delete ==
    \E c \in 1..Len(fw.calls) :
        /\ fw.calls[c].kind = "delete" /\ fw.calls[c].pc = "delete"
        /\ store' = qdrantDelete(store, fw.calls[c].path)
        /\ fw' = callOver(c, "deleted")
        /\ UNCHANGED <<ix, rm, sr, ret, latest, call, tool>>

\* deleteDocument: the delete throws; rethrown to handleFileDelete
handleFileDelete_deleteError ==
    \E c \in 1..Len(fw.calls) :
        /\ fw.calls[c].kind = "delete" /\ fw.calls[c].pc = "delete"
        /\ fw' = callFailed(c, "deleteError")
        /\ UNCHANGED <<store, ix, rm, sr, ret, latest, call, tool>>

WatchNext ==
    \/ start
    \/ onAddOrChange
    \/ onUnlink
    \/ onReady
    \/ processExistingFiles_list
    \/ processExistingFiles_listError
    \/ processExistingFiles_next
    \/ handleFileChange_read
    \/ handleFileChange_readError
    \/ handleFileChange_embed
    \/ handleFileChange_embedError
    \/ handleFileChange_upsert
    \/ handleFileChange_upsertError
    \/ handleFileDelete_delete
    \/ handleFileDelete_deleteError

WatchSpec == Init /\ [][WatchNext]_vars

\* ------------------------------------------------------------------------
\* FileWatcher under 'change' events alone
\* ------------------------------------------------------------------------

\* largest number of 'change' events
MaxChanges == 2

\* 'change': the user has saved a file of the notebook; handleFileChange is
\* called, not awaited
onChange ==
    /\ fw.pc = "watching" /\ fw.events < MaxChanges
    /\ \E document \in Documents :
         fw' = [fw EXCEPT !.events = @ + 1,
                          !.changed[document.path] = @ + 1,
                          !.disk[document.path] = document,
                          !.calls = Append(@, newCall("change", "event", document.path))]
    /\ UNCHANGED <<store, ix, rm, sr, ret, latest, call, tool>>

ChangeNext ==
    \/ start
    \/ onChange
    \/ handleFileChange_read
    \/ handleFileChange_readError
    \/ handleFileChange_embed
    \/ handleFileChange_embedError
    \/ handleFileChange_upsert
    \/ handleFileChange_upsertError

ChangeSpec == Init /\ [][ChangeNext]_vars

\* ------------------------------------------------------------------------
\* VectorProcessor.search as a function of the order of its variants and of
\* what the store answers for each variant
\* ------------------------------------------------------------------------

\* the first loop of search: for (const searchQuery of queries), merging
\* the answer of the similarity search for each
RECURSIVE semanticLoop(_, _, _)
semanticLoop(allResults, queries, answers) ==
    IF queries = <<>> THEN allResults
    ELSE semanticLoop(mergeSemantic(allResults, answers[Head(queries)].semantic, Head(queries)),
                      Tail(queries), answers)

\* the loop of addFullTextResults, merging the scored points of each scan
RECURSIVE fullTextLoop(_, _, _)
fullTextLoop(allResults, queries, answers) ==
    IF queries = <<>> THEN allResults
    ELSE fullTextLoop(mergeFullText(allResults, answers[Head(queries)].lexical, Head(queries)),
                      Tail(queries), answers)

\* allResults when addFullTextResults has returned
accumulate(queries, answers) ==
    fullTextLoop(semanticLoop(<<>>, queries, answers), queries, answers)

\* the store of these calls: the points of ShortNote and of BobNote
rankStore == qdrantUpsert(qdrantUpsert(<<>>, pointsOf[ShortNote]), pointsOf[BobNote])

\* what the store answers to the two legs of one variant
LegAnswers(limit) ==
    [semantic : qdrantSearch(rankStore, limit * 2), lexical : qdrantScroll(rankStore, limit * 2)]

\* a search of QueryBob: its variants in the order of expandQuery, the same
\* variants in another order, and the answers of the store per variant
rankEntry(queries, order, answers, limit) ==
    [fn |-> "search", pc |-> "called", queries |-> queries, order |-> order,
     answers |-> answers, limit |-> limit,
     accumulated |-> <<>>, value |-> <<>>, reordered |-> <<>>, other |-> <<>>]

\* both runs reach their return
search_inOrders ==
    /\ call.fn = "search" /\ call.pc = "called"
    /\ LET permuted == [k \in 1..Len(call.order) |-> call.queries[call.order[k]]]
       IN  call' = [call EXCEPT
                      !.pc = "done",
                      !.accumulated = accumulate(call.queries, call.answers),
                      !.value = fuse(accumulate(call.queries, call.answers), call.limit),
                      !.reordered = accumulate(permuted, call.answers),
                      !.other = fuse(accumulate(permuted, call.answers), call.limit)]
    /\ UNCHANGED <<store, ix, rm, sr, ret, latest, tool, fw>>

RankInit ==
    /\ store = rankStore
    /\ ix = ixIdle
    /\ rm = rmIdle
    /\ sr = srIdle
    /\ ret = retNone
    /\ latest = [p \in Paths |-> IF p = PathNote THEN ShortNote ELSE BobNote]
    /\ \E year \in Years, limit \in 1..MaxLimit :
         LET queries == variantsOf[QueryBob][year]
         IN  \E order \in Orderings(1..Len(queries)),
                answers \in [Range(queries) -> LegAnswers(limit)] :
                  call = rankEntry(queries, order, answers, limit)
    /\ tool = toolIdle
    /\ fw = fwOff

RankNext == search_inOrders

RankSpec == RankInit /\ [][RankNext]_vars

\* ------------------------------------------------------------------------
\* addFullTextResults on one scanned point: scoring and merge
\* ------------------------------------------------------------------------

\* the variants of these calls: empty, a short word, one word, two words
ScoreVariants ==
    { <<>>, <<"o","n">>, <<"B","o","b">>, <<"b","o","b"," ","x">> }

ScoreTexts ==
    { <<>>, <<"o","n">>, <<"g","o"," ","o","n">>, <<"B","O","B"," ","x">>,
      <<"t","h","e"," ","b","o","b"," ","x">>, <<"p","l","a","n">> }

ScoreTitles == { <<>>, <<"B","o","b">>, <<"o","n">> }

ScorePaths == { PathNote, PathBob, <<"o","n",".","m","d">> }

\* similarity scores of the entry the semantic legs left for the point's key
PriorScores == { scoreThreshold, 99, 100 }

scorePayload(text, title, path) ==
    [file_path |-> path, chunk_index |-> 0, text |-> text, title |-> title,
     tags |-> <<>>, frontmatter |-> <<>>, last_modified |-> "t1"]

\* the scan of searchQuery has returned the point; allResults is what the
\* semantic legs left: nothing, or an entry for the point's key
scoreEntry(searchQuery, payload, allResults) ==
    [fn |-> "addFullTextResults", pc |-> "point", searchQuery |-> searchQuery,
     payload |-> payload, before |-> allResults, allResults |-> allResults,
     textScore |-> 0]

\* the body of scrollResult.points.forEach for the point: the score is
\* computed, boosted and merged under the point's key
addFullTextResults_point ==
    /\ call.fn = "addFullTextResults" /\ call.pc = "point"
    /\ LET textScore == fullTextScore(call.searchQuery, call.payload)
       IN  call' = [call EXCEPT
                      !.pc = "done",
                      !.textScore = textScore,
                      !.allResults = mergeHit(@, resultKey(call.payload),
                                              makeHit(textScore, call.searchQuery,
                                                      "full-text", call.payload))]
    /\ UNCHANGED <<store, ix, rm, sr, ret, latest, tool, fw>>

ScoreInit ==
    /\ store = <<>>
    /\ ix = ixIdle
    /\ rm = rmIdle
    /\ sr = srIdle
    /\ ret = retNone
    /\ latest = [p \in Paths |-> NoDocument]
    /\ \E searchQuery \in ScoreVariants, text \in ScoreTexts, title \in ScoreTitles,
          path \in ScorePaths :
         LET payload == scorePayload(text, title, path)
         IN  call \in { scoreEntry(searchQuery, payload, <<>>) } \cup
                      { scoreEntry(searchQuery, payload,
                                   mergeSemantic(<<>>, << [score |-> s, payload |-> payload] >>,
                                                 <<"B","o","b">>)) :
                          s \in PriorScores }
    /\ tool = toolIdle
    /\ fw = fwOff

ScoreNext == addFullTextResults_point

ScoreSpec == ScoreInit /\ [][ScoreNext]_vars

\* ------------------------------------------------------------------------
\* Specification: the engine's three operations, called one at a time
\* ------------------------------------------------------------------------

Next ==
    \/ processDocument_begin
    \/ processDocument_embed
    \/ processDocument_embedError
    \/ processDocument_upsert
    \/ processDocument_upsertError
    \/ deleteDocument_begin
    \/ deleteDocument_delete
    \/ deleteDocument_deleteError
    \/ search_begin
    \/ search_embed
    \/ search_embedError
    \/ search_semantic
    \/ search_semanticError
    \/ addFullTextResults_scroll
    \/ addFullTextResults_scrollError
    \/ search_return

Spec == Init /\ [][Next]_vars

TypeOK ==
    /\ ix.pc \in {"idle", "embed", "upsert"}
    /\ rm.pc \in {"idle", "delete"}
    /\ sr.pc \in {"idle", "embed", "semantic", "scroll", "fusion"}
    /\ ret.status \in {"none", "pending", "returned", "raised"}

\* ------------------------------------------------------------------------
\* Properties of search
\* ------------------------------------------------------------------------

searchReturned == ret.op = "search" /\ ret.status = "returned"

hitPair(hit) == <<hit.file_path, hit.chunk_index>>

\* C1: search(query, limit) returns at most `limit` hits and their scores
\* are non-increasing from the first hit to the last.
C1_AtMostLimitSortedByScore ==
    searchReturned =>
        /\ Len(ret.value) <= ret.call.limit
        /\ \A n \in 1..(Len(ret.value) - 1) : ret.value[n].score >= ret.value[n + 1].score

\* a search that merged more keys than its limit and returned two hits of
\* different scores
C1_Witness ==
    /\ searchReturned
    /\ Len(ret.call.allResults) > ret.call.limit
    /\ Len(ret.value) = 2
    /\ ret.value[1].score > ret.value[2].score

\* C2: for every (file_path, chunk_index) some leg returned during the call,
\* the accumulator holds the maximum score among all candidates produced for
\* it, with the variant and the leg of a candidate that produced that score.
C2_AccumulatorKeepsMaximum ==
    searchReturned =>
        \A pair \in DOMAIN ret.call.best :
            \E n \in 1..Len(ret.call.allResults) :
                LET hit == ret.call.allResults[n].value
                IN  /\ hitPair(hit) = pair
                    /\ hit.score = ret.call.best[pair].score
                    /\ <<hit.searchQuery, hit.searchType>> \in ret.call.best[pair].by

\* a lexical entry that stands in the accumulator before a semantic one: its
\* key was inserted by a semantic candidate (the semantic legs all run first)
\* and replaced by a lexical candidate of the last variant with a greater score
C2_Witness ==
    /\ searchReturned
    /\ Len(ret.call.queries) > 1
    /\ \E n \in 1..(Len(ret.call.allResults) - 1) :
         /\ ret.call.allResults[n].value.searchType = "full-text"
         /\ ret.call.allResults[n].value.searchQuery = ret.call.queries[Len(ret.call.queries)]
         /\ ret.call.allResults[n + 1].value.searchType = "semantic"

\* C3: no two hits of one returned list have the same (file_path, chunk_index).
C3_OneHitPerKey ==
    searchReturned =>
        \A m, n \in 1..Len(ret.value) :
            hitPair(ret.value[m]) = hitPair(ret.value[n]) => m = n

\* two hits returned, one of them for a point that the lexical leg returned
\* for several variants (they share the best score) and that the semantic leg
\* had returned before (its key stands before a key of the semantic phase)
C3_Witness ==
    /\ searchReturned
    /\ Len(ret.value) = 2
    /\ \E n \in 1..(Len(ret.call.allResults) - 1) :
         /\ ret.call.allResults[n].value.searchType = "full-text"
         /\ Cardinality(ret.call.best[hitPair(ret.call.allResults[n].value)].by) >= 2
         /\ ret.call.allResults[n + 1].value.searchType = "semantic"

\* C4 (as claimed): every returned hit has a score in [0, 1].
C4_ScoreInUnitInterval ==
    searchReturned =>
        \A n \in 1..Len(ret.value) : ret.value[n].score >= 0 /\ ret.value[n].score <= 100

\* C5: when the lexical scan throws for every variant (it throws for the
\* first one, which ends the lexical leg) and the semantic legs succeed,
\* search returns, and returns the semantic-only hits: per key the best
\* semantic candidate, sorted by score descending, truncated to limit.
C5_LexicalFailureKeepsSemanticHits ==
    (ret.op = "search" /\ ret.status # "pending" /\ ret.call.scrollError = 1) =>
        LET best  == ret.call.best
            pairs == { hitPair(ret.value[n]) : n \in 1..Len(ret.value) }
        IN  /\ ret.status = "returned"
            /\ Len(ret.value) = IF Cardinality(DOMAIN best) < ret.call.limit
                                THEN Cardinality(DOMAIN best) ELSE ret.call.limit
            /\ Cardinality(pairs) = Len(ret.value)
            /\ \A n \in 1..Len(ret.value) :
                 LET hit == ret.value[n]
                 IN  /\ hit.searchType = "semantic"
                     /\ hitPair(hit) \in DOMAIN best
                     /\ hit.score = best[hitPair(hit)].score
                     /\ <<hit.searchQuery, hit.searchType>> \in best[hitPair(hit)].by
                     /\ \A pair \in DOMAIN best \ pairs : best[pair].score <= hit.score
            /\ \A n \in 1..(Len(ret.value) - 1) : ret.value[n].score >= ret.value[n + 1].score

\* the scan threw for the first variant of a search whose semantic legs had
\* found more keys than the limit, and hits were returned
C5_Witness ==
    /\ searchReturned
    /\ ret.call.scrollError = 1
    /\ Len(ret.call.queries) > 1
    /\ Len(ret.value) >= 1
    /\ Len(ret.call.allResults) > Len(ret.value)

\* C6: when the embedding service fails for a variant, search raises and
\* returns no hit list, whatever was accumulated before; the failed call was
\* the only embedding call for that variant (no retry).
C6_EmbeddingFailureRaises ==
    (ret.op = "search" /\ ret.status # "pending" /\ ret.call.embedError > 0) =>
        /\ ret.status = "raised"
        /\ ret.value = <<>>
        /\ ret.call.embedCalls = ret.call.embedError

\* the embedding of the second variant failed after the first variant had
\* put hits into the accumulator
C6_Witness ==
    /\ ret.op = "search"
    /\ ret.status = "raised"
    /\ ret.call.embedError = 2
    /\ Len(ret.call.allResults) >= 1

\* ------------------------------------------------------------------------
\* Properties of indexing and removal
\* ------------------------------------------------------------------------

pointsOfPath(st, filePath) ==
    { st[id] : id \in { i \in DOMAIN st : st[i].payload.file_path = filePath } }

\* C7: when the embedding call fails for a chunk of a document, index raises,
\* no upsert is issued and the store is exactly as it was before the call.
C7_EmbeddingFailureLeavesStore ==
    (ret.op = "index" /\ ret.status # "pending" /\ ret.call.pc = "embedError") =>
        /\ ret.status = "raised"
        /\ ret.call.upserts = 0
        /\ store = ret.call.before

\* the embedding of the last chunk of a two-chunk document failed, after the
\* point of its first chunk had been built, over a store that has points
C7_Witness ==
    /\ ret.op = "index"
    /\ ret.status = "raised"
    /\ ret.call.pc = "embedError"
    /\ Len(ret.call.chunks) = 2
    /\ Len(ret.call.points) = 1
    /\ DOMAIN store # {}

\* C8: after remove(filePath) the store holds no point of filePath and every
\* other point is unchanged; a search returns no hit for a path whose points
\* were removed and not indexed again.
C8_RemoveDeletesOnlyThatPath ==
    /\ (ret.op = "remove" /\ ret.status = "returned") =>
          /\ pointsOfPath(store, ret.call.filePath) = {}
          /\ DOMAIN store \subseteq DOMAIN ret.call.before
          /\ \A id \in DOMAIN ret.call.before :
               ret.call.before[id].payload.file_path # ret.call.filePath
                   => id \in DOMAIN store /\ store[id] = ret.call.before[id]
    /\ searchReturned =>
          \A n \in 1..Len(ret.value) : latest[ret.value[n].file_path] # NoDocument

\* a remove that found points of its path and points of another path
C8_Witness ==
    /\ ret.op = "remove"
    /\ ret.status = "returned"
    /\ pointsOfPath(ret.call.before, ret.call.filePath) # {}
    /\ DOMAIN store # {}

\* C9 (as claimed): the points stored for a path are exactly the chunks of
\* the most recently indexed version of that path, and none after a remove.
C9_PointsAreLatestVersion ==
    \A p \in Paths :
        pointsOfPath(store, p) =
            IF latest[p] = NoDocument THEN {}
            ELSE Range(pointsOf[latest[p]])

\* C10: indexing the same document twice in a row leaves the store as the
\* first indexing left it: same point ids, same points, none added.
C10_IndexIdempotent ==
    (ret.op = "index" /\ ret.status = "returned" /\ ret.call.again) =>
        /\ DOMAIN store = DOMAIN ret.call.before
        /\ store = ret.call.before

\* the two-chunk document indexed a second time, right after its first
\* indexing returned
C10_Witness ==
    /\ ret.op = "index"
    /\ ret.status = "returned"
    /\ ret.call.again
    /\ Len(ret.call.points) = 2

\* ------------------------------------------------------------------------
\* Properties of the point id
\* ------------------------------------------------------------------------

\* every point the engine has built and the model still holds: stored, built
\* by the call in flight, built by the last call, stored before either
pointsSeen ==
    Range(store) \cup Range(ix.points) \cup Range(ix.before)
        \cup (IF ret.op = "index" /\ ret.status # "pending"
              THEN Range(ret.call.points) \cup Range(ret.call.before)
              ELSE {})

\* C11: the id of a point is determined by (file_path, chunk_index): two
\* points built for the same pair, in different calls and from different
\* contents, carry the same id, which is the digest of
\* "{filePath}_chunk_{chunkIndex}".
C11_PointIdDeterministic ==
    \A p, q \in pointsSeen :
        (/\ p.payload.file_path = q.payload.file_path
         /\ p.payload.chunk_index = q.payload.chunk_index)
            => /\ p.id = q.id
               /\ p.id = [md5 |-> p.payload.file_path \o <<"_","c","h","u","n","k","_">>
                                    \o Digits(p.payload.chunk_index)]

\* a stored point and a point built by a later call for the same path and
\* chunk index from another content
C11_Witness ==
    /\ ix.pc = "upsert"
    /\ \E p \in Range(store), q \in Range(ix.points) :
         /\ p.payload.file_path = q.payload.file_path
         /\ p.payload.chunk_index = q.payload.chunk_index
         /\ p.payload.text # q.payload.text
         /\ p.id = q.id

\* ------------------------------------------------------------------------
\* Properties of chunkDocument (checked under ChunkSpec)
\* ------------------------------------------------------------------------

chunkReturned == call.fn = "chunkDocument" /\ call.pc = "done"

\* the loop taken one iteration at a time returns what chunkDocument returns
chunkStepsAgree ==
    chunkReturned => call.result = chunkDocument([content |-> call.text])

\* s without its whitespace
nonWhitespace(s) == SelectSeq(s, LAMBDA c : ~IsSpace(c))

\* paragraphs k..to appended to acc as the loop's else branch appends them
RECURSIVE appendParagraphs(_, _, _, _)
appendParagraphs(acc, paragraphs, k, to) ==
    IF k > to THEN acc
    ELSE appendParagraphs(acc \o (IF acc # <<>> THEN <<"\n", "\n">> ELSE <<>>) \o paragraphs[k],
                          paragraphs, k + 1, to)

\* the overlap copied into chunk n, then its paragraphs, whole and in order
seamAndParagraphs(n) ==
    LET part == call.parts[n]
    IN  IF n = 1
        THEN appendParagraphs(<<>>, call.paragraphs, part.from, part.to)
        ELSE appendParagraphs(part.seam \o call.paragraphs[part.from],
                              call.paragraphs, part.from + 1, part.to)

\* the chunk texts without their seams, whitespace removed, one after another
RECURSIVE withoutSeams(_)
withoutSeams(n) ==
    IF n = 0 THEN <<>>
    ELSE LET all  == nonWhitespace(call.chunks[n].text)
             skip == Len(nonWhitespace(call.parts[n].seam))
         IN  withoutSeams(n - 1) \o SubSeq(all, skip + 1, Len(all))

\* C12: chunkDocument never returns zero chunks, and for an empty or
\* whitespace-only content it returns exactly one chunk, whose text is the
\* trimmed (empty) content.
C12_AtLeastOneChunk ==
    chunkReturned =>
        /\ Len(call.result) >= 1
        /\ trim(call.text) = <<>> =>
              /\ Len(call.result) = 1
              /\ call.result[1].text = trim(call.text)
              /\ call.result[1].text = <<>>

\* a whitespace-only content longer than maxChunkSize, whose second
\* paragraph made the loop push the (blank) first one
C12_Witness ==
    /\ chunkReturned
    /\ trim(call.text) = <<>>
    /\ Len(call.text) > maxChunkSize
    /\ Len(call.chunks) = 1

\* C13 (as claimed): every chunk is at most 1000 characters long, unless it
\* is exactly one paragraph that is longer than 1000 characters.
C13_ChunkLengthBounded ==
    chunkReturned =>
        \A n \in 1..Len(call.result) :
            \/ Len(call.result[n].text) <= maxChunkSize
            \/ \E k \in 1..Len(call.paragraphs) :
                  /\ Len(call.paragraphs[k]) > maxChunkSize
                  /\ call.result[n].text = trim(call.paragraphs[k])

\* C14: nothing is lost or reordered: the chunks take the paragraphs in
\* their order, every paragraph that is not blank goes into exactly one chunk,
\* each chunk's text is its seam followed by its paragraphs, whole, trimmed
\* at both ends, and the chunk texts without their seams hold all the
\* non-whitespace content in the original order.
C14_NothingLostOrReordered ==
    chunkReturned =>
        LET parts == call.parts
            N     == Len(parts)
            K     == Len(call.paragraphs)
        IN  /\ Len(call.chunks) = N
            /\ \A n \in 1..N :
                  /\ parts[n].from <= parts[n].to
                  /\ parts[n].from = IF n = 1 THEN 1 ELSE parts[n - 1].to + 1
                  /\ call.chunks[n].text = trim(seamAndParagraphs(n))
            /\ \A k \in 1..K :
                  trim(call.paragraphs[k]) # <<>> =>
                      Cardinality({ n \in 1..N : parts[n].from <= k /\ k <= parts[n].to }) = 1
            /\ withoutSeams(N) = nonWhitespace(call.text)

\* three paragraphs in two chunks: one chunk holds two paragraphs and the
\* second chunk starts with a copied seam
C14_Witness ==
    /\ chunkReturned
    /\ Len(call.paragraphs) = 3
    /\ Len(call.chunks) = 2
    /\ call.parts[2].seam # <<>>
    /\ \E n \in 1..2 : call.parts[n].to > call.parts[n].from
    /\ \A k \in 1..3 : trim(call.paragraphs[k]) # <<>>

\* ------------------------------------------------------------------------
\* Properties of expandQuery (checked under ExpandSpec)
\* ------------------------------------------------------------------------

expandReturned == call.fn = "expandQuery" /\ call.pc = "done"

\* the query has the words "July" and "4th" or "4" next to each other, and
\* the word "meeting"
julyFourthMeeting(query) ==
    LET words == splitWhitespace(query)
    IN  /\ \E n \in 1..(Len(words) - 1) :
              /\ words[n] = <<"J","u","l","y">>
              /\ words[n + 1] \in { <<"4","t","h">>, <<"4">> }
        /\ \E n \in 1..Len(words) : words[n] = W_meeting

\* C15 (as claimed): for a query with the date "July 4th" and the word
\* "meeting" the variants contain "07-04", "<currentYear>-07-04", "July 4",
\* "## Meetings" and "meeting".
C15_DateAndMeetingVariants ==
    (expandReturned /\ julyFourthMeeting(call.query)) =>
        /\ <<"0","7","-","0","4">> \in Range(call.result)
        /\ Digits(call.year) \o <<"-","0","7","-","0","4">> \in Range(call.result)
        /\ <<"J","u","l","y"," ","4">> \in Range(call.result)
        /\ <<"#","#"," ","M","e","e","t","i","n","g","s">> \in Range(call.result)
        /\ W_meeting \in Range(call.result)

\* C16: the variants returned for any query contain the query itself,
\* unchanged, and no variant twice.
C16_OriginalKeptNoDuplicates ==
    expandReturned =>
        /\ call.query \in Range(call.result)
        /\ \A m, n \in 1..Len(call.result) :
              call.result[m] = call.result[n] => m = n

\* a query with upper-case letters and a doubled space whose date was
\* matched: nine date variants were pushed twice
C16_Witness ==
    /\ expandReturned
    /\ call.query # toLowerCase(call.query)
    /\ includes(call.query, <<" ", " ">>)
    /\ dateMatch(toLowerCase(call.query)).found
    /\ Len(call.pushes) >= Len(call.result) + 9

\* ------------------------------------------------------------------------
\* Properties of extractTitle (checked under TitleSpec)
\* ------------------------------------------------------------------------

titleReturned == call.fn = "extractTitle" /\ call.pc = "done"

\* the lines of a Markdown content: ended by LF or CRLF
markdownLines(content) ==
    LET raw == splitChar(content, "\n")
    IN  [n \in 1..Len(raw) |->
            IF raw[n] # <<>> /\ raw[n][Len(raw[n])] = "\r"
            THEN SubSeq(raw[n], 1, Len(raw[n]) - 1)
            ELSE raw[n]]

\* a level-1 heading: '#', whitespace, then a text that is not blank
isHeading1(line) ==
    /\ Len(line) >= 3
    /\ line[1] = "#"
    /\ IsSpace(line[2])
    /\ trim(SubSeq(line, 3, Len(line))) # <<>>

\* the last path segment with the .md extension stripped
fileStem(path) ==
    LET parts == splitChar(path, "/")
        base  == parts[Len(parts)]
    IN  IF Len(base) >= 3 /\ SubSeq(base, Len(base) - 2, Len(base)) = <<".", "m", "d">>
        THEN SubSeq(base, 1, Len(base) - 3)
        ELSE base

\* the title by the three rules, each used only when the earlier ones yield
\* nothing
titleByRules(document) ==
    LET lines == markdownLines(document.content)
        hs    == { n \in 1..Len(lines) : isHeading1(lines[n]) }
    IN  IF "title" \in DOMAIN document.frontmatter /\ document.frontmatter.title # <<>>
        THEN document.frontmatter.title
        ELSE IF hs # {}
             THEN LET line == lines[Min(hs)]
                  IN  trim(SubSeq(line, 3, Len(line)))
             ELSE fileStem(document.path)

\* C18 (as claimed): the title is the frontmatter title when present,
\* otherwise the text of the first level-1 heading of the content, otherwise
\* the file name stem.
C18_TitleResolutionOrder ==
    titleReturned => call.result = titleByRules(call.document)

\* ------------------------------------------------------------------------
\* Properties of the search_notes tool (checked under ToolSpec)
\* ------------------------------------------------------------------------

\* C17 (as claimed): a search request whose query is missing or empty is
\* rejected with an invalid-parameters error, and no call to the embedding
\* service or to the vector store is made for it.
C17_EmptyQueryRejected ==
    (tool.pc # "idle" /\ falsyQuery(tool.args)) =>
        /\ tool.pc = "raised"
        /\ tool.error = "InvalidParams"
        /\ sr = srIdle
        /\ ret.status # "pending"

\* ------------------------------------------------------------------------
\* Properties of the FileWatcher (checked under WatchSpec)
\* ------------------------------------------------------------------------

\* the handler invocations that are inside processDocument for a path
indexing(path) ==
    { c \in 1..Len(fw.calls) :
        /\ fw.calls[c].kind = "change"
        /\ fw.calls[c].pc \in {"embed", "upsert"}
        /\ fw.calls[c].path = path }

\* C19: a failure while indexing one document (read, embedding or upsert)
\* is logged and does not abort the start-up pass: the pass ends only after
\* every listed file was handed to handleFileChange, in order, whatever the
\* outcome of the files before it, and the watcher keeps handling events.
C19_FailureDoesNotAbortBatch ==
    /\ fw.pc \in {"off", "watching"}
    /\ fw.logged = fw.failures + (IF fw.batch.pc = "listError" THEN 1 ELSE 0)
    /\ fw.batch.pc \in {"off", "list", "listError", "loop", "await", "done"}
    /\ fw.batch.pc \in {"loop", "await", "done"} =>
          /\ Len(fw.batch.outcomes) = fw.batch.k - 1
          /\ \A k \in 1..Len(fw.batch.outcomes) :
                fw.batch.outcomes[k].path = fw.batch.files[k]
    /\ fw.batch.pc = "done" => Len(fw.batch.outcomes) = Len(fw.batch.files)

\* the pass is over: the indexing of its first file failed and was logged,
\* its second file was indexed, and an event was taken after the failure
C19_Witness ==
    /\ fw.batch.pc = "done"
    /\ Len(fw.batch.files) = 2
    /\ fw.batch.outcomes[1].outcome \in {"embedError", "upsertError"}
    /\ fw.batch.outcomes[2].outcome = "indexed"
    /\ fw.logged >= 1
    /\ fw.events = MaxEvents
    /\ Len(fw.calls) >= 1

\* C20 (as claimed): at no time are two index operations for the same path
\* in flight together.
C20_OneIndexPerPath ==
    \A path \in Paths : Cardinality(indexing(path)) <= 1

\* ------------------------------------------------------------------------
\* Properties of the order of the legs of a search
\* ------------------------------------------------------------------------

\* the legs of a search over n variants in the order of the two loops: the
\* similarity searches of all variants, then the scans of all variants
legPlan(n) ==
    [k \in 1..(2 * n) |->
        IF k <= n THEN [variant |-> k, leg |-> "semantic"]
                  ELSE [variant |-> k - n, leg |-> "lexical"]]

legDone(legs, variant, leg) ==
    \E k \in 1..Len(legs) : legs[k] = [variant |-> variant, leg |-> leg]

\* C21 (as claimed): while a leg of a variant is in flight, both legs of
\* every earlier variant have finished.
C21_VariantByVariant ==
    sr.pc \in {"embed", "semantic", "scroll"} =>
        \A j \in 1..(sr.vi - 1) :
            legDone(sr.legs, j, "semantic") /\ legDone(sr.legs, j, "lexical")

\* C21 (amended): the legs run one at a time, the semantic legs of all
\* variants in order first and the lexical legs of all variants in order
\* after them; the leg in flight is the next one of that plan, and a search
\* that returns has finished all semantic legs.
C21_SemanticLegsThenLexicalLegs ==
    /\ sr.pc \in {"embed", "semantic"} =>
           sr.legs = SubSeq(legPlan(Len(sr.queries)), 1, sr.vi - 1)
    /\ sr.pc = "scroll" =>
           sr.legs = SubSeq(legPlan(Len(sr.queries)), 1, Len(sr.queries) + sr.vi - 1)
    /\ searchReturned =>
           /\ Len(ret.call.legs) >= Len(ret.call.queries)
           /\ ret.call.legs = SubSeq(legPlan(Len(ret.call.queries)), 1, Len(ret.call.legs))

\* a search over two variants returned after all four legs
C21_Witness ==
    /\ searchReturned
    /\ Len(ret.call.queries) = 2
    /\ ret.call.legs = legPlan(2)

\* ------------------------------------------------------------------------
\* Properties of the ranking under another order of the variants
\* ------------------------------------------------------------------------

rankReturned == call.fn = "search" /\ call.pc = "done"

\* which keys, in which order, with which scores
ranking(hits) == [n \in 1..Len(hits) |-> <<hits[n].file_path, hits[n].chunk_index, hits[n].score>>]

\* per key the score the accumulator holds
scoreByKey(allResults) ==
    { <<allResults[n].key, allResults[n].value.score>> : n \in 1..Len(allResults) }

\* the accumulators of the two runs hold the same keys with the same scores
accumulatorsAgree ==
    rankReturned => scoreByKey(call.accumulated) = scoreByKey(call.reordered)

\* C22 (as claimed): for the same store, query, limit and answers of the
\* store, processing the variants in another order returns the same keys in
\* the same order with the same scores.
C22_RankingIndependentOfOrder ==
    rankReturned => ranking(call.value) = ranking(call.other)

\* ------------------------------------------------------------------------
\* Properties of ties in the accumulator
\* ------------------------------------------------------------------------

\* every key a leg has produced is held with its best score and with the
\* variant and leg of the first candidate that reached that score
holdsFirstSeen(s) ==
    \A pair \in DOMAIN s.best :
        \E n \in 1..Len(s.allResults) :
            LET hit == s.allResults[n].value
            IN  /\ hitPair(hit) = pair
                /\ hit.score = s.best[pair].score
                /\ <<hit.searchQuery, hit.searchType>> = s.best[pair].first

\* the legs whose candidates share the best score of a key
tiedLegs(s, pair) == { who[2] : who \in s.best[pair].by }

\* C23: after every leg of a search and at its return, the entry of a key is
\* the first candidate that reached the key's best score: a later candidate
\* of equal score, of either leg and any variant, did not replace it.
C23_TieKeepsFirstSeen ==
    /\ sr.pc # "idle" => holdsFirstSeen(sr)
    /\ searchReturned => holdsFirstSeen(ret.call)

\* a search returned in which the semantic candidates of two variants tied
\* on one key and the lexical candidates of two variants tied on another
C23_Witness ==
    /\ searchReturned
    /\ \E p1, p2 \in DOMAIN ret.call.best :
         /\ Cardinality(ret.call.best[p1].by) >= 2
         /\ tiedLegs(ret.call, p1) = {"semantic"}
         /\ Cardinality(ret.call.best[p2].by) >= 2
         /\ tiedLegs(ret.call, p2) = {"full-text"}

\* ------------------------------------------------------------------------
\* Properties of the overlap between chunks
\* ------------------------------------------------------------------------

\* at most the last 100 characters of a buffer
lastHundred(buffer) ==
    [n \in 1..(IF Len(buffer) < 100 THEN Len(buffer) ELSE 100) |->
        buffer[Len(buffer) - (IF Len(buffer) < 100 THEN Len(buffer) ELSE 100) + n]]

\* the paragraphs of chunk n joined by blank lines
ownParagraphs(n) ==
    appendParagraphs(call.paragraphs[call.parts[n].from], call.paragraphs,
                     call.parts[n].from + 1, call.parts[n].to)

\* the buffer flushed as chunk n, rebuilt from the paragraphs alone: the
\* first holds its paragraphs, a later one the end of the buffer before it,
\* then its paragraphs, the first of them directly behind the overlap
RECURSIVE bufferOf(_)
bufferOf(n) ==
    IF n = 1 THEN appendParagraphs(<<>>, call.paragraphs, call.parts[1].from, call.parts[1].to)
    ELSE lastHundred(bufferOf(n - 1)) \o ownParagraphs(n)

\* C24: the first chunk is its paragraphs alone; every later chunk is the
\* last (at most 100) characters of the buffer flushed before it, directly
\* followed by the paragraph that did not fit into that buffer and by the
\* chunk's further paragraphs, trimmed; it carries at most 100 characters
\* more than its own paragraphs.
C24_OverlapOnlyAtFlush ==
    chunkReturned =>
        \A n \in 1..Len(call.chunks) :
            /\ call.chunks[n].text = trim(bufferOf(n))
            /\ n > 1 =>
                  /\ Len(bufferOf(n - 1)) > 0
                  /\ Len(bufferOf(n - 1)) + Len(call.paragraphs[call.parts[n].from]) > 1000
                  /\ Len(bufferOf(n)) <= 100 + Len(ownParagraphs(n))

\* three chunks: the second starts with the whole of a buffer shorter than
\* 100 characters, the third with the last 100 characters of a longer one
C24_Witness ==
    /\ chunkReturned
    /\ Len(call.chunks) = 3
    /\ Len(bufferOf(1)) \in 1..99
    /\ Len(bufferOf(2)) > 100
    /\ call.chunks[2].text = bufferOf(1) \o ownParagraphs(2)
    /\ call.chunks[3].text = lastHundred(bufferOf(2)) \o ownParagraphs(3)
    /\ Len(call.chunks[3].text) = 100 + Len(ownParagraphs(3))

\* ------------------------------------------------------------------------
\* Properties of the keyword rule of the expander
\* ------------------------------------------------------------------------

\* the whitespace-separated words of s: its maximal runs of characters that
\* are not whitespace
wordsOf(s) ==
    { SubSeq(s, ab[1], ab[2]) :
        ab \in { ab \in (1..Len(s)) \X (1..Len(s)) :
                    /\ ab[1] <= ab[2]
                    /\ \A m \in ab[1]..ab[2] : ~IsSpace(s[m])
                    /\ ab[1] = 1 \/ IsSpace(s[ab[1] - 1])
                    /\ ab[2] = Len(s) \/ IsSpace(s[ab[2] + 1]) } }

\* C25: every word of the query that is longer than 2 characters and whose
\* lower-cased form is not a stop word is a variant in its lower-cased
\* form, pushed by the keyword rule; the keyword rule pushes nothing else:
\* no stop word and no word of 2 characters or fewer.
C25_KeywordVariants ==
    expandReturned =>
        LET words == wordsOf(toLowerCase(call.query))
        IN  /\ \A w \in words :
                  (Len(w) > 2 /\ w \notin StopWords) =>
                      w \in Range(call.keywords) /\ w \in Range(call.result)
            /\ \A w \in Range(call.keywords) :
                  w \in words /\ Len(w) > 2 /\ w \notin StopWords

\* "Daily notes on July": the capitalised words came back lower-cased, the
\* stop word "notes" and the short word "on" did not come back
C25_Witness ==
    /\ expandReturned
    /\ call.query = <<"D","a","i","l","y"," ","n","o","t","e","s"," ","o","n"," ","J","u","l","y">>
    /\ W_daily \in Range(call.result)
    /\ <<"j","u","l","y">> \in Range(call.result)
    /\ <<"n","o","t","e","s">> \notin Range(call.result)
    /\ <<"o","n">> \notin Range(call.result)

\* ------------------------------------------------------------------------
\* Properties of the calls made by one indexing
\* ------------------------------------------------------------------------

indexReturned == ret.op = "index" /\ ret.status = "returned"

\* C26: while the embeddings of a document are computed, one chunk after
\* the other, nothing is written to the store; the upsert is issued when all
\* N embeddings have returned; an indexing that succeeds has made N
\* embedding calls, in chunk order, and one upsert, which carried the N
\* points.
C26_EmbedAllThenOneUpsert ==
    /\ ix.pc = "embed" =>
          /\ ix.i < Len(ix.chunks)
          /\ Len(ix.points) = ix.i
          /\ ix.upserts = 0
          /\ store = ix.before
    /\ ix.pc = "upsert" =>
          /\ ix.i = Len(ix.chunks)
          /\ Len(ix.points) = Len(ix.chunks)
          /\ ix.upserts = 0
          /\ store = ix.before
    /\ indexReturned =>
          LET c == ret.call
              N == Len(c.chunks)
          IN  /\ c.i = N
              /\ c.upserts = 1
              /\ Len(c.points) = N
              /\ \A n \in 1..N :
                    /\ c.points[n].payload.chunk_index = n - 1
                    /\ c.points[n].payload.text = c.chunks[n].text
                    /\ c.points[n].vector = embedding(c.chunks[n].text)
                    /\ c.points[n].id \in DOMAIN store
                    /\ store[c.points[n].id] = c.points[n]
              /\ \A id \in DOMAIN store :
                    id \notin { c.points[n].id : n \in 1..N } =>
                        id \in DOMAIN c.before /\ store[id] = c.before[id]

\* a document of two chunks was indexed into a store that held another
\* document
C26_Witness ==
    /\ indexReturned
    /\ Len(ret.call.chunks) = 2
    /\ ret.call.i = 2
    /\ ret.call.before # <<>>
    /\ \E id \in DOMAIN store : store[id].payload.file_path # ret.call.document.path

\* ------------------------------------------------------------------------
\* Properties of the store after the watcher's handlers
\* ------------------------------------------------------------------------

\* the handler invocations in flight for a path
handling(path) == { c \in 1..Len(fw.calls) : fw.calls[c].path = path }

\* C27 (as claimed): when a file was deleted, no handler for its path is
\* in flight any more and no handler has failed, the store holds no point
\* of that path.
C27_DeletedPathLeavesNoPoints ==
    \A path \in Paths :
        (fw.disk[path] = NoDocument /\ handling(path) = {} /\ fw.failures = 0) =>
            pointsOfPath(store, path) = {}

\* what the store holds for a path is what indexing the file as it is now
\* puts there
storeShowsDisk(path) ==
    pointsOfPath(store, path) = Range(pointsOf[fw.disk[path]])

\* C29 (as claimed): when two or more change events were handled for a
\* path, no handler for it is in flight any more and no handler has failed,
\* the store holds for that path the points of the file's latest content and
\* no others.
C29_LaterChangeWins ==
    \A path \in Paths :
        (fw.changed[path] >= 2 /\ handling(path) = {} /\ fw.failures = 0) =>
            storeShowsDisk(path)

\* ------------------------------------------------------------------------
\* Properties of a search whose lexical scan fails part-way
\* ------------------------------------------------------------------------

\* the position of a variant in the list of variants
variantIndex(queries, searchQuery) == CHOOSE k \in 1..Len(queries) : queries[k] = searchQuery

\* C28: when the scan throws for variant k, the legs that ran are the
\* semantic legs of all variants and the lexical legs of the variants before
\* k, and no other; search returns; it returns, per key, the best candidate
\* of those legs (lexical hits of the variants before k among them), sorted
\* by score and cut to limit.
C28_ScanFailureEndsLexicalLegs ==
    (ret.op = "search" /\ ret.status # "pending" /\ ret.call.scrollError > 0) =>
        LET c     == ret.call
            k     == c.scrollError
            best  == c.best
            pairs == { hitPair(ret.value[n]) : n \in 1..Len(ret.value) }
        IN  /\ ret.status = "returned"
            /\ c.legs = SubSeq(legPlan(Len(c.queries)), 1, Len(c.queries) + k - 1)
            /\ \A pair \in DOMAIN best : \A who \in best[pair].by :
                  who[2] = "full-text" => variantIndex(c.queries, who[1]) < k
            /\ Len(ret.value) = IF Cardinality(DOMAIN best) < c.limit
                                THEN Cardinality(DOMAIN best) ELSE c.limit
            /\ Cardinality(pairs) = Len(ret.value)
            /\ \A n \in 1..Len(ret.value) :
                  LET hit == ret.value[n]
                  IN  /\ hitPair(hit) \in DOMAIN best
                      /\ hit.score = best[hitPair(hit)].score
                      /\ <<hit.searchQuery, hit.searchType>> \in best[hitPair(hit)].by
                      /\ \A pair \in DOMAIN best \ pairs : best[pair].score <= hit.score
            /\ \A n \in 1..(Len(ret.value) - 1) : ret.value[n].score >= ret.value[n + 1].score

\* the scan threw for the second variant; a lexical hit of the first
\* variant and a semantic hit were returned
C28_Witness ==
    /\ searchReturned
    /\ ret.call.scrollError = 2
    /\ Len(ret.value) = 2
    /\ \E n \in 1..2 :
          /\ ret.value[n].searchType = "full-text"
          /\ ret.value[n].searchQuery = ret.call.queries[1]
    /\ \E n \in 1..2 : ret.value[n].searchType = "semantic"

\* ------------------------------------------------------------------------
\* Properties of the lexical score
\* ------------------------------------------------------------------------

scoreDone == call.fn = "addFullTextResults" /\ call.pc = "done"

\* the chunk text contains the variant, letter case ignored
textContainsVariant ==
    includes(toLowerCase(call.payload.text), toLowerCase(call.searchQuery))

\* C30: a lexical candidate whose text contains the variant scores at
\* least 1.0, and then the entry of its key is the candidate itself unless
\* the semantic entry it met had a score of 1.0 or more; a candidate whose
\* text does not contain the variant scores from 0.5 to 1.0.
C30_ContainingTextScoresAtLeastOne ==
    scoreDone =>
        LET entry == call.allResults[1].value
        IN  /\ Len(call.allResults) = 1
            /\ textContainsVariant =>
                  /\ call.textScore >= 100
                  /\ (call.before = <<>> \/ call.before[1].value.score < 100) =>
                        /\ entry.searchType = "full-text"
                        /\ entry.searchQuery = call.searchQuery
                        /\ entry.score = call.textScore
            /\ ~textContainsVariant =>
                  call.textScore >= 50 /\ call.textScore <= 100

\* a candidate with the lowest score a containing text can get (the short
\* variant "on" found only inside the text: 0.5 + 0.3, then + 0.2) replaced
\* a semantic entry of score 0.99
C30_Witness ==
    /\ scoreDone
    /\ textContainsVariant
    /\ call.textScore = 100
    /\ call.before # <<>>
    /\ call.before[1].value.score = 99
    /\ call.allResults[1].value.searchType = "full-text"

====
